---- MODULE Spec2Model ----
(***************************************************************************)
(* Model of the pr-writer agent of AI-Betting-Arena/JARVIS:                *)
(*   - the unified-diff applier  (nodes/pr_creator.py,                     *)
(*     _apply_patch_to_content, _split_diff_by_file, _parse_diff_files)    *)
(*   - the publish transaction   (nodes/pr_creator.py, pr_creator_node)    *)
(*                                                                         *)
(* Text is modelled line by line.  A line of file content is a record      *)
(* [txt, nl]: its characters without the terminator, and whether it is     *)
(* newline-terminated (str.splitlines(keepends=True)).  A line of a patch  *)
(* is a record [kind, path, start, count, mark, txt, nl]:                  *)
(*   kind "old"  : "--- a/<path>"   (or "--- /dev/null")                   *)
(*   kind "new"  : "+++ b/<path>"                                          *)
(*   kind "hunk" : "@@ -start[,count] +.. @@<mark><txt>"                   *)
(*   kind "body" : "<mark><txt>", mark the first character ("" when the    *)
(*                 line is empty)                                          *)
(*   kind "text" : any other line (prose)                                  *)
(***************************************************************************)
EXTENDS Integers, Sequences, FiniteSets, TLC

VARIABLES
    \* ---- _apply_patch_to_content, one run --------------------------------
    original,       \* argument `original`, as lines
    patch_block,    \* argument `patch_block`, as patch lines
    output,         \* local `output`
    offset,         \* local `offset`
    scan,           \* position of the finditer scan in patch_block
    applied,        \* history: the insert_at of every hunk applied so far
    result,         \* the returned text, as lines
    apc,            \* position in _apply_patch_to_content
    \* ---- pr_creator_node, one run ----------------------------------------
    state,          \* the pipeline state handed to the node (patch, issue_number)
    env,            \* GITHUB_TOKEN / GITHUB_REPO present
    remote,         \* the default branch: path -> "file" | "absent" | "dir"
    pc,             \* position in pr_creator_node
    patch,          \* local `patch` (stripped)
    file_blocks,    \* local `file_blocks`, as an insertion-ordered dict
    file_idx,       \* index of the loop over file_blocks.items()
    fetched,        \* (sha, current_content) of the current iteration
    calls,          \* history: every remote call issued, in order
    commits,        \* the new branch: the file commits it holds, in order
    source_sha,     \* local `source_sha`: the head commit get_branch returned
    branch,         \* the created branch ([name, sha]) or NoBranch
    pull,           \* the opened pull request or NoPull
    ret,            \* the dict returned by the node, or NoReturn
    \* ---- file_locator_node, consecutive runs ------------------------------
    signals,        \* state keys keywords, symbols, file_hints
    project,        \* the tree under PROJECT_PATH: [isdir, files]
    cache,          \* the file at SYMBOL_INDEX_PATH: its text, or NoFile
    force_rebuild,  \* REBUILD_SYMBOL_INDEX is set
    rg,             \* ripgrep: [installed, out], out the answer per term
    max_files,      \* MAX_FILES
    search_terms,   \* local `search_terms`
    term_idx,       \* index of the loop over search_terms
    scores,         \* local `scores`, as an insertion-ordered dict
    index,          \* local `index`
    hint_idx,       \* index of the loop over file_hints
    ranked,         \* local `ranked`
    lpc,            \* position in file_locator_node
    run,            \* number of the current run
    results,        \* history: located_files of every finished run
    \* ---- _load_or_build_index, concurrent pipeline instances --------------
    procs,          \* per instance: [pc, force, built, pos, index]
    \* ---- code_reader_node, one run ----------------------------------------
    located_files,  \* state key located_files
    disk,           \* the filesystem: path -> [kind, readable, size]
    file_contents,  \* local `file_contents`, as an insertion-ordered dict
    skipped,        \* local `skipped`
    read_idx,       \* index of the loop over located_files
    rpc,            \* position in code_reader_node
    \* ---- the compiled graph, concurrent invocations -----------------------
    invocations,    \* per app.invoke: [active, channels, log, status]
    \* ---- issue_analyzer_node, one run -------------------------------------
    issue_text,     \* state keys issue_title, issue_body
    answer,         \* local `raw`: the answer of the model, then stripped
    parsed,         \* local `parsed`
    analysis,       \* the dict returned by the node, or NoReturn
    ipc             \* position in issue_analyzer_node

applyVars == <<original, patch_block, output, offset, scan, applied, result, apc>>
pubVars   == <<state, env, remote, pc, patch, file_blocks, file_idx, fetched,
               calls, commits, source_sha, branch, pull, ret>>
locVars   == <<signals, project, cache, force_rebuild, rg, max_files, search_terms,
               term_idx, scores, index, hint_idx, ranked, lpc, run, results>>
idxVars   == <<procs>>
readVars  == <<located_files, disk, file_contents, skipped, read_idx, rpc>>
graphVars == <<invocations>>
anaVars   == <<issue_text, answer, parsed, analysis, ipc>>
vars      == <<applyVars, pubVars, locVars, idxVars, readVars, graphVars, anaVars>>

\* what the steps of one part of the model leave alone
besidesApply == <<pubVars, locVars, idxVars, readVars, graphVars, anaVars>>
besidesPub   == <<applyVars, locVars, idxVars, readVars, graphVars, anaVars>>
besidesLoc   == <<applyVars, pubVars, idxVars, readVars, graphVars, anaVars>>
besidesRead  == <<applyVars, pubVars, locVars, idxVars, graphVars, anaVars>>
besidesGraph == <<applyVars, pubVars, locVars, idxVars, readVars, anaVars>>
besidesAna   == <<applyVars, pubVars, locVars, idxVars, readVars, graphVars>>

-----------------------------------------------------------------------------
(* Bounds *)

\* longest original file, in lines
MaxLines == 3
\* most hunks in one patch block handed to _apply_patch_to_content
MaxHunks == 3
\* most file sections in one patch handed to pr_creator_node
MaxSections == 3

-----------------------------------------------------------------------------
(* Generic helpers *)

Max(a, b) == IF a >= b THEN a ELSE b
Min(a, b) == IF a <= b THEN a ELSE b

RECURSIVE SumSeq(_)
SumSeq(s) == IF s = <<>> THEN 0 ELSE Head(s) + SumSeq(Tail(s))

RECURSIVE Flatten(_)
Flatten(ss) == IF ss = <<>> THEN <<>> ELSE Head(ss) \o Flatten(Tail(ss))

\* all sequences over S of length lo..hi
SeqsOf(S, lo, hi) == UNION {[1..n -> S] : n \in lo..hi}

-----------------------------------------------------------------------------
(* Text as lines *)

Ln(t)      == [txt |-> t, nl |-> TRUE]
LnOpen(t)  == [txt |-> t, nl |-> FALSE]

\* "".join(lines) read back as lines: a line that is not newline-terminated
\* runs into the one that follows it; the empty string is no line at all.
RECURSIVE JoinLines(_)
JoinLines(ls) ==
    IF ls = <<>> THEN <<>>
    ELSE LET h == Head(ls) IN
         IF h.nl THEN <<h>> \o JoinLines(Tail(ls))
         ELSE IF Len(ls) = 1 THEN (IF h.txt = "" THEN <<>> ELSE <<h>>)
         ELSE JoinLines(<<[txt |-> h.txt \o ls[2].txt, nl |-> ls[2].nl]>>
                        \o SubSeq(ls, 3, Len(ls)))

\* Python slice assignment  lst[i : i + k] = new
SliceAssign(lst, i, k, new) ==
    LET n      == Len(lst)
        clamp(x) == IF x < 0 THEN Max(x + n, 0) ELSE Min(x, n)
        lo     == clamp(i)
        hi     == Max(clamp(i + k), lo)
    IN  SubSeq(lst, 1, lo) \o new \o SubSeq(lst, hi + 1, n)

-----------------------------------------------------------------------------
(* Patch lines *)

NoCount == <<>>

OldLine(p) ==
    [kind |-> "old", path |-> p, start |-> 0, count |-> NoCount,
     mark |-> "-", txt |-> "", nl |-> TRUE]
NewLine(p) ==
    [kind |-> "new", path |-> p, start |-> 0, count |-> NoCount,
     mark |-> "+", txt |-> "", nl |-> TRUE]
\* "@@ -s[,c] +.. @@" followed on the same line by mark \o txt
HunkLine(s, c, m, t) ==
    [kind |-> "hunk", path |-> "", start |-> s, count |-> c,
     mark |-> m, txt |-> t, nl |-> TRUE]
BodyLine(m, t) ==
    [kind |-> "body", path |-> "", start |-> 0, count |-> NoCount,
     mark |-> m, txt |-> t, nl |-> TRUE]
TextLine(t) ==
    [kind |-> "text", path |-> "", start |-> 0, count |-> NoCount,
     mark |-> "#", txt |-> t, nl |-> TRUE]

\* first character of a patch line, "" if it has none
FirstChar(l) == l.mark

\* the characters of a patch line after its first one (line[1:])
RestOf(l) ==
    CASE l.kind = "old"  -> "-- a/" \o l.path
      [] l.kind = "new"  -> "++ b/" \o l.path
      [] l.kind = "hunk" -> "@ .. @@" \o l.mark \o l.txt
      [] OTHER           -> l.txt

\* all characters of a patch line
WholeOf(l) == l.mark \o RestOf(l)

\* only whitespace on the line
IsBlank(l) == l.kind = "body" /\ l.mark \in {"", " "} /\ l.txt = ""

\* str.strip() of a patch text that starts with a visible character: trailing
\* blank lines go, and the last line loses its newline.
RECURSIVE Strip(_)
Strip(p) ==
    IF p = <<>> THEN <<>>
    ELSE LET last == p[Len(p)] IN
         IF IsBlank(last) THEN Strip(SubSeq(p, 1, Len(p) - 1))
         ELSE [p EXCEPT ![Len(p)].nl = FALSE]

-----------------------------------------------------------------------------
(* _apply_patch_to_content *)

\* _HUNK_HEADER_RE.search(patch_block, pos): the first line at or after `from`
\* that is a hunk header, Len(block) + 1 when there is none
NextHunk(block, from) ==
    LET c == {i \in from..Len(block) : block[i].kind = "hunk"}
    IN  IF c = {} THEN Len(block) + 1 ELSE CHOOSE i \in c : \A j \in c : i <= j

\* what is left of the header line after the closing "@@" (hunk.end()), as the
\* first line of the body; nothing when the text ends right at the "@@"
HeaderRest(h) ==
    IF h.mark = "" /\ h.txt = "" /\ ~h.nl THEN <<>>
    ELSE <<[kind |-> "body", path |-> "", start |-> 0, count |-> NoCount,
            mark |-> h.mark, txt |-> h.txt, nl |-> h.nl]>>

\* body = patch_block[hunk_end : next_hunk.start()].splitlines(keepends=True)
HunkBody(block, h) ==
    HeaderRest(block[h]) \o SubSeq(block, h + 1, NextHunk(block, h + 1) - 1)

\* one body line: what it appends to new_lines
EmitLine(l) ==
    IF FirstChar(l) = "+" THEN <<[txt |-> RestOf(l), nl |-> l.nl]>>
    ELSE IF FirstChar(l) = "-" THEN <<>>
    ELSE <<[txt |-> IF FirstChar(l) = " " THEN RestOf(l) ELSE WholeOf(l),
            nl  |-> l.nl]>>

RECURSIVE NewLines(_)
NewLines(body) ==
    IF body = <<>> THEN <<>> ELSE EmitLine(Head(body)) \o NewLines(Tail(body))

OrigStart(h) == h.start - 1
OrigCount(h) == IF h.count = NoCount THEN 1 ELSE h.count[1]

\* one iteration, mutated: the offset is overwritten instead of accumulated
ApplyHunkNoAccumulate(st, block, h) ==
    LET new_lines == NewLines(HunkBody(block, h))
        insert_at == OrigStart(block[h]) + st.offset
    IN  [output  |-> SliceAssign(st.output, insert_at, OrigCount(block[h]), new_lines),
         offset  |-> Len(new_lines) - OrigCount(block[h]),
         applied |-> Append(st.applied, insert_at)]

\* one iteration of the loop over the hunk headers, on st = [output, offset, applied]
ApplyHunk(st, block, h) ==
    LET new_lines == NewLines(HunkBody(block, h))
        insert_at == OrigStart(block[h]) + st.offset
    IN  [output  |-> SliceAssign(st.output, insert_at, OrigCount(block[h]), new_lines),
         offset  |-> st.offset + Len(new_lines) - OrigCount(block[h]),
         applied |-> Append(st.applied, insert_at)]

RECURSIVE ApplyFrom(_, _, _)
ApplyFrom(st, block, from) ==
    LET h == NextHunk(block, from)
    IN  IF h > Len(block) THEN st
        ELSE ApplyFrom(ApplyHunk(st, block, h), block, h + 1)

\* the whole function, on lines
ApplyPatchToContent(orig, block) ==
    JoinLines(ApplyFrom([output |-> orig, offset |-> 0, applied |-> <<>>],
                        block, 1).output)

-----------------------------------------------------------------------------
(* Inputs of _apply_patch_to_content *)

Alphabet == <<"a", "b", "c", "d", "e", "f">>

\* the file a, b, c, ... of n lines; `closed` says whether it ends in a newline
FileOf(n, closed) ==
    [i \in 1..n |-> IF i = n /\ ~closed THEN LnOpen(Alphabet[i]) ELSE Ln(Alphabet[i])]

\* spec.md, Scenario B: the original "a\nb\nc\n" and the hunk "@@ -1,1 +1,2 @@"
ScenarioBOriginal == <<Ln("a"), Ln("b"), Ln("c")>>
ScenarioBBlock ==
    <<HunkLine(1, <<1>>, "", ""),
      BodyLine("-", "a"), BodyLine("+", "x"), BodyLine("+", "y")>>

Originals ==
    {<<>>, ScenarioBOriginal, FileOf(MaxLines, TRUE)}

Counts == {NoCount, <<0>>, <<2>>}

\* the lines of T in the declared range s .. s + n - 1 that exist
RangeOf(T, s, n) ==
    LET lo == Max(s, 1)
        hi == Min(s + n - 1, Len(T))
    IN  [k \in 1..Max(hi - lo + 1, 0) |-> T[lo + k - 1].txt]

\* the body of a hunk over range r of the original
BodyFor(r, shape) ==
    CASE shape = "replace"  -> [k \in 1..Len(r) |-> BodyLine("-", r[k])]
                                 \o <<BodyLine("+", "x"), BodyLine("+", "y")>>
      [] shape = "keep_add" -> [k \in 1..Len(r) |-> BodyLine(" ", r[k])]
                                 \o <<BodyLine("+", "x")>>
      [] shape = "no_newline" ->
             [k \in 1..Len(r) |-> BodyLine("-", r[k])]
               \o <<BodyLine("+", "x"), BodyLine("\\", " No newline at end of file")>>
      [] OTHER              -> [k \in 1..Len(r) |-> BodyLine("-", r[k])]

\* a hunk "@@ -s[,c] .. @@<tail>" with a body that matches T
HunkFor(T, ch, tl) ==
    <<HunkLine(ch.s, ch.c, tl[1], tl[2])>>
    \o BodyFor(RangeOf(T, ch.s, IF ch.c = NoCount THEN 1 ELSE ch.c[1]), ch.shape)

HunkChoices ==
    [s : 0..MaxLines, c : Counts, shape : {"replace"}]
    \cup [s : 0..MaxLines, c : {NoCount}, shape : {"keep_add", "delete"}]
    \cup [s : {MaxLines}, c : {NoCount}, shape : {"no_newline"}]

\* the text after "@@" on a header line: nothing, or a section heading
Tails == {<<"", "">>, <<" ", "fn">>}

\* hunk sequences of n hunks in strictly ascending original-line order, the
\* first one starting at line lo or later
RECURSIVE AscendingFrom(_, _)
AscendingFrom(lo, n) ==
    IF n = 0 THEN {<<>>}
    ELSE UNION {{<<ch>> \o rest : rest \in AscendingFrom(ch.s + 1, n - 1)} :
                ch \in {c \in HunkChoices : c.s >= lo}}

AscendingChoices == UNION {AscendingFrom(0, n) : n \in 1..MaxHunks}

\* the file sections handed to _apply_patch_to_content for original T
BlocksFor(T) ==
    {<<OldLine("src/f.ts"), NewLine("src/f.ts")>>
       \o Flatten([i \in 1..Len(cs) |-> HunkFor(T, cs[i], tl)]) :
     cs \in AscendingChoices, tl \in Tails}
    \cup (IF T = ScenarioBOriginal THEN {ScenarioBBlock} ELSE {})

-----------------------------------------------------------------------------
(* One run of _apply_patch_to_content, step by step *)

\* Python None, where a blob or commit identifier is expected
NoSha    == "None"
NoBranch == [name |-> "", sha |-> ""]
NoPull   == [head |-> "", base |-> "", issue |-> 0, body |-> <<>>]
NoReturn == [pr_url |-> "", logs |-> <<>>]
NoFetch  == [sha |-> "", content |-> <<>>]

\* no file at a path of the local filesystem
NoFile == [exists |-> FALSE, text |-> <<>>]

LocIdle ==
    /\ signals = [keywords |-> <<>>, symbols |-> <<>>, file_hints |-> <<>>]
    /\ project = [isdir |-> FALSE, files |-> <<>>]
    /\ cache = NoFile
    /\ force_rebuild = FALSE
    /\ rg = [installed |-> FALSE, out |-> <<>>]
    /\ max_files = 0
    /\ search_terms = <<>>
    /\ term_idx = 1
    /\ scores = <<>>
    /\ index = <<>>
    /\ hint_idx = 1
    /\ ranked = <<>>
    /\ lpc = "idle"
    /\ run = 0
    /\ results = <<>>

IdxIdle == procs = <<>>

ReadIdle ==
    /\ located_files = <<>>
    /\ disk = <<>>
    /\ file_contents = <<>>
    /\ skipped = <<>>
    /\ read_idx = 1
    /\ rpc = "idle"

GraphIdle == invocations = <<>>
AnaIdle ==
    /\ issue_text = [title |-> <<>>, body |-> <<>>]
    /\ answer = <<>>
    /\ parsed = <<>>
    /\ analysis = <<>>
    /\ ipc = "idle"

PubIdle ==
    /\ state = [patch |-> <<>>, issue_number |-> 0]
    /\ env = [token |-> FALSE, repo |-> FALSE]
    /\ remote = <<>>
    /\ pc = "idle"
    /\ patch = <<>>
    /\ file_blocks = <<>>
    /\ file_idx = 1
    /\ fetched = NoFetch
    /\ calls = <<>>
    /\ commits = <<>>
    /\ source_sha = NoSha
    /\ branch = NoBranch
    /\ pull = NoPull
    /\ ret = NoReturn

InitApply ==
    /\ original \in Originals
    /\ patch_block \in BlocksFor(original)
    /\ output = <<>>
    /\ offset = 0
    /\ scan = 0
    /\ applied = <<>>
    /\ result = <<>>
    /\ apc = "start"
    /\ PubIdle /\ LocIdle /\ IdxIdle /\ ReadIdle /\ GraphIdle /\ AnaIdle

\* lines 61-63: split the original into lines, offset = 0
ApplyStart ==
    /\ apc = "start"
    /\ output' = original
    /\ offset' = 0
    /\ scan' = 1
    /\ apc' = "loop"
    /\ UNCHANGED <<original, patch_block, applied, result>>
    /\ UNCHANGED besidesApply

\* lines 65-86: the next hunk header is found and its hunk applied
ApplyLoop ==
    /\ apc = "loop"
    /\ NextHunk(patch_block, scan) <= Len(patch_block)
    /\ LET h  == NextHunk(patch_block, scan)
           st == ApplyHunk([output |-> output, offset |-> offset, applied |-> applied],
                           patch_block, h)
       IN  /\ output' = st.output
           /\ offset' = st.offset
           /\ applied' = st.applied
           /\ scan' = h + 1
    /\ UNCHANGED <<original, patch_block, result, apc>>
    /\ UNCHANGED besidesApply

\* line 88: no header is left, the lines are joined and returned
ApplyReturn ==
    /\ apc = "loop"
    /\ NextHunk(patch_block, scan) > Len(patch_block)
    /\ result' = JoinLines(output)
    /\ apc' = "done"
    /\ UNCHANGED <<original, patch_block, output, offset, scan, applied>>
    /\ UNCHANGED besidesApply

NextApply == ApplyStart \/ ApplyLoop \/ ApplyReturn

SpecApply == InitApply /\ [][NextApply]_vars

\* C25: the lines a hunk puts into the output are its body lines classified
\* by their first character: a '+' line without its marker, nothing for a '-'
\* line, and every other line with exactly one leading character removed (a
\* line that has no character before its terminator is kept as it is).
ClaimedEmit(l) ==
    IF FirstChar(l) = "-" THEN <<>>
    ELSE IF FirstChar(l) = "" THEN <<[txt |-> WholeOf(l), nl |-> l.nl]>>
    ELSE <<[txt |-> RestOf(l), nl |-> l.nl]>>

C25_BodyLinesLoseOneCharacter ==
    [][(apc = "loop" /\ scan' # scan) =>
          LET h    == NextHunk(patch_block, scan)
              body == HunkBody(patch_block, h)
          IN  output' = SliceAssign(output, OrigStart(patch_block[h]) + offset,
                                    OrigCount(patch_block[h]),
                                    Flatten([i \in 1..Len(body) |-> ClaimedEmit(body[i])]))]_vars

-----------------------------------------------------------------------------
(* Reading a patch block as a list of hunks, for stating properties:       *)
(* independent of the loop above                                           *)

\* the header lines of block, in file order
HunkIndexes(block) ==
    LET RECURSIVE from(_)
        from(i) == IF i > Len(block) THEN <<>>
                   ELSE IF block[i].kind = "hunk" THEN <<i>> \o from(i + 1)
                   ELSE from(i + 1)
    IN  from(1)

\* where the text of the hunk whose header is line h ends
HunkEnd(block, h) ==
    IF \E j \in (h + 1)..Len(block) : block[j].kind = "hunk"
    THEN (CHOOSE j \in (h + 1)..Len(block) :
             /\ block[j].kind = "hunk"
             /\ \A i \in (h + 1)..(j - 1) : block[i].kind # "hunk") - 1
    ELSE Len(block)

\* lines the hunk at h contributes to the file: every line from the closing
\* "@@" of its header to the next header that does not start with "-"
LinesEmitted(block, h) ==
    (IF block[h].mark = "" /\ block[h].txt = "" /\ ~block[h].nl THEN 0 ELSE 1)
    + Cardinality({i \in (h + 1)..HunkEnd(block, h) : block[i].mark # "-"})

DeclaredCount(l) == IF l.count = NoCount THEN 1 ELSE l.count[1]

\* net growth of the file caused by the hunks before the k-th one
NetBefore(block, k) ==
    LET hs == HunkIndexes(block)
    IN  SumSeq([j \in 1..(k - 1) |->
                  LinesEmitted(block, hs[j]) - DeclaredCount(block[hs[j]])])

\* C1: the index at which hunk k is applied is (orig_start_k - 1) plus the net
\* growth (lines emitted - orig_count) of the strictly preceding hunks, and
\* nothing else.
C1_AnchorFromPrecedingHunks ==
    LET hs == HunkIndexes(patch_block)
    IN  /\ Len(applied) <= Len(hs)
        /\ \A k \in 1..Len(applied) :
              applied[k] = (patch_block[hs[k]].start - 1) + NetBefore(patch_block, k)

\* C1 witness: a third hunk was applied to a non-empty file after two hunks
\* that each changed the number of lines
C1_Witness ==
    /\ original # <<>>
    /\ Len(applied) = 3
    /\ NetBefore(patch_block, 2) # 0
    /\ NetBefore(patch_block, 3) # NetBefore(patch_block, 2)
    /\ applied[3] # patch_block[HunkIndexes(patch_block)[3]].start - 1

\* the declared original range of every hunk lies inside T, or the hunk has
\* the insertion form "-0,0"
RangesInside(T, block) ==
    \A k \in 1..Len(HunkIndexes(block)) :
        LET l == block[HunkIndexes(block)[k]] IN
        \/ l.start >= 1 /\ l.start - 1 + DeclaredCount(l) <= Len(T)
        \/ l.start = 0 /\ DeclaredCount(l) = 0

\* C28: for hunks whose declared ranges lie inside the original file, the
\* index at which a hunk replaces lines is never negative, the replaced range
\* never ends past the end of the current output, and a hunk "-0,0" puts its
\* lines at the very start of the file.
C28_ReplaceInsideOutput ==
    [][(apc = "loop" /\ scan' # scan /\ RangesInside(original, patch_block)) =>
          LET l         == patch_block[NextHunk(patch_block, scan)]
              insert_at == (l.start - 1) + offset
              grown     == Len(output') - Len(output)
          IN  /\ insert_at >= 0
              /\ insert_at + DeclaredCount(l) <= Len(output)
              /\ (l.start = 0 /\ DeclaredCount(l) = 0) =>
                    /\ grown >= 0
                    /\ SubSeq(output', grown + 1, Len(output')) = output]_vars

-----------------------------------------------------------------------------
(* What a unified diff declares, read from the hunks alone *)

\* first and last original line a hunk header covers; a header with count 0
\* covers no line and declares an insertion after line `start`
OldFirst(l) == IF DeclaredCount(l) = 0 THEN l.start + 1 ELSE l.start
OldLast(l)  == IF DeclaredCount(l) = 0 THEN l.start ELSE l.start + DeclaredCount(l) - 1

\* the body lines of the hunk at h carrying one of the marks in `marks`, as text
BodyTexts(block, h, marks) ==
    LET RECURSIVE from(_)
        from(i) == IF i > HunkEnd(block, h) THEN <<>>
                   ELSE IF block[i].mark \in marks THEN <<block[i].txt>> \o from(i + 1)
                   ELSE from(i + 1)
    IN  from(h + 1)

\* the hunks of block are non-overlapping, in ascending order, inside T, and
\* their context and removed lines are the lines of T at the declared ranges
ValidFor(T, block) ==
    LET hs == HunkIndexes(block)
    IN  /\ \A k \in 1..Len(hs) :
              LET l == block[hs[k]] IN
              /\ \A i \in (hs[k] + 1)..HunkEnd(block, hs[k]) :
                    block[i].kind = "body" /\ block[i].mark \in {"+", "-", " "}
              /\ OldFirst(l) >= 1
              /\ OldLast(l) <= Len(T)
              /\ BodyTexts(block, hs[k], {" ", "-"})
                   = [i \in 1..DeclaredCount(l) |-> T[l.start + i - 1].txt]
        /\ \A k \in 1..(Len(hs) - 1) :
              OldLast(block[hs[k]]) < OldFirst(block[hs[k + 1]])

\* T with the declared range of the hunk at h replaced by the hunk's context
\* and added lines
DeclaredChange(T, block, h) ==
    LET l   == block[h]
        new == BodyTexts(block, h, {" ", "+"})
    IN  SubSeq(T, 1, OldFirst(l) - 1)
        \o [i \in 1..Len(new) |-> Ln(new[i])]
        \o SubSeq(T, OldLast(l) + 1, Len(T))

\* T with every hunk's declared change made, last hunk first so that the
\* original line numbers stay valid
RECURSIVE DeclaredResultFrom(_, _, _)
DeclaredResultFrom(T, block, k) ==
    IF k = 0 THEN T
    ELSE DeclaredResultFrom(DeclaredChange(T, block, HunkIndexes(block)[k]), block, k - 1)

DeclaredResult(T, block) ==
    DeclaredResultFrom(T, block, Len(HunkIndexes(block)))

\* C2: round trip. For non-overlapping hunks that match the original, the
\* returned text is the original with exactly the declared changes made:
\* removed lines gone, added lines at their declared place, all other lines
\* unchanged and in order.
C2_RoundTrip ==
    (apc = "done" /\ HunkIndexes(patch_block) # <<>> /\ ValidFor(original, patch_block))
        => result = JoinLines(DeclaredResult(original, patch_block))

\* C3: Scenario B. "a\nb\nc\n" patched by the hunk "@@ -1,1 +1,2 @@" that
\* removes a and adds x, y is "x\ny\nb\nc\n".
C3_ScenarioB ==
    (apc = "done" /\ original = ScenarioBOriginal /\ patch_block = ScenarioBBlock)
        => result = <<Ln("x"), Ln("y"), Ln("b"), Ln("c")>>

-----------------------------------------------------------------------------
(* Splitting a patch per file *)

DevNull == "/dev/null"

\* the lines of patch that start with "--- " (re.split(r"(?=^--- )")), in order
SectionStarts(p) ==
    LET RECURSIVE from(_)
        from(i) == IF i > Len(p) THEN <<>>
                   ELSE IF p[i].kind = "old" THEN <<i>> \o from(i + 1)
                   ELSE from(i + 1)
    IN  from(1)

\* the sections that start with a file header; text before the first "--- "
\* line matches no header and is passed over
Sections(p) ==
    LET st == SectionStarts(p)
    IN  [k \in 1..Len(st) |->
            SubSeq(p, st[k], IF k < Len(st) THEN st[k + 1] - 1 ELSE Len(p))]

\* m.group(1).strip() of the header that starts a section
SectionPath(sec) == sec[1].path

\* d[key] = val on an insertion-ordered dict, a sequence of [path, block]:
\* an existing key keeps its place and takes the new value
DictSet(d, key, val) ==
    IF \E i \in 1..Len(d) : d[i].path = key
    THEN [i \in 1..Len(d) |-> IF d[i].path = key THEN [path |-> key, block |-> val]
                                                ELSE d[i]]
    ELSE Append(d, [path |-> key, block |-> val])

\* _split_diff_by_file
SplitDiffByFile(p) ==
    LET secs == Sections(p)
        RECURSIVE fill(_, _)
        fill(d, k) ==
            IF k > Len(secs) THEN d
            ELSE IF SectionPath(secs[k]) # DevNull
                 THEN fill(DictSet(d, SectionPath(secs[k]), secs[k]), k + 1)
                 ELSE fill(d, k + 1)
    IN  fill(<<>>, 1)

\* _parse_diff_files: the paths of the files touched by the diff, deduplicated,
\* in order of first appearance, /dev/null left out
ParseDiffFiles(p) ==
    LET secs == Sections(p)
        RECURSIVE fill(_, _)
        fill(ps, k) ==
            IF k > Len(secs) THEN ps
            ELSE IF SectionPath(secs[k]) # DevNull
                    /\ ~\E i \in 1..Len(ps) : ps[i] = SectionPath(secs[k])
                 THEN fill(Append(ps, SectionPath(secs[k])), k + 1)
                 ELSE fill(ps, k + 1)
    IN  fill(<<>>, 1)

-----------------------------------------------------------------------------
(* The remote repository platform and the inputs of pr_creator_node *)

PathF   == "src/f.ts"
PathG   == "src/g.ts"
PathH   == "src/h.ts"
PathNew == "src/new.ts"
Paths   == {PathF, PathG, PathH, PathNew}

DefaultBranch == "main"
\* what the head commit of the default branch can be when the run reads it
HeadShas      == {"commit-1", "commit-2"}
PrUrl         == "https://github.com/o/r/pull/1"
IssueNumber   == 7
Now           == 1700000000

ShaOf(path) == "blob-of-" \o path

\* the file sections a patch is made of
SectionF1 ==
    <<OldLine(PathF), NewLine(PathF), HunkLine(1, <<1>>, "", ""),
      BodyLine("-", "a"), BodyLine("+", "x"), BodyLine("+", "y")>>
SectionF2 ==
    <<OldLine(PathF), NewLine(PathF), HunkLine(3, NoCount, "", ""),
      BodyLine("-", "c"), BodyLine("+", "z")>>
SectionG ==
    <<OldLine(PathG), NewLine(PathG), HunkLine(1, <<1>>, " ", "fn"),
      BodyLine("-", "a"), BodyLine("+", "x"), BodyLine("+", "y"),
      HunkLine(3, <<1>>, "", ""), BodyLine("-", "c"), BodyLine("+", "z")>>
SectionH ==
    <<OldLine(PathH), NewLine(PathH), HunkLine(1, <<2>>, "", ""),
      BodyLine(" ", "a"), BodyLine("-", "b"), BodyLine("+", "y")>>
SectionNew ==
    <<OldLine(DevNull), NewLine(PathNew), HunkLine(0, <<0>>, "", ""),
      BodyLine("+", "n")>>

SectionPool == {SectionF1, SectionF2, SectionG, SectionH, SectionNew}

\* text without any file section or hunk
Prose == <<TextLine("I could not produce a patch.")>>

\* what patch_generator_node leaves in state["patch"]: "" when there is nothing
\* to patch, else the stripped text of the model's answer
GeneratedPatches ==
    {Strip(Flatten(ss)) : ss \in SeqsOf(SectionPool, 0, MaxSections)}
    \cup {Strip(Prose)}

\* the default branch: every path is a file, a directory, or absent
FileAt(path) ==
    [status |-> "file", sha |-> ShaOf(path), content |-> FileOf(3, TRUE)]
AbsentAt(path) == [status |-> "absent", sha |-> NoSha, content |-> <<>>]
DirAt(path)    == [status |-> "dir", sha |-> NoSha, content |-> <<>>]

Remotes ==
    {[q \in Paths |->
        CASE q = PathF   -> FileAt(q)
          [] q = PathG   -> IF g THEN FileAt(q) ELSE AbsentAt(q)
          [] q = PathH   -> IF h THEN DirAt(q) ELSE AbsentAt(q)
          [] OTHER       -> AbsentAt(q)] : g \in BOOLEAN, h \in BOOLEAN}

\* what a remote call can raise: a GithubException with a status and a data
\* payload (a dict, or None when the response had no body), or anything else
GithubError(st, data, msg) ==
    [kind |-> "github", status |-> st, data |-> data, message |-> msg]
Failures ==
    {GithubError(404, "dict", "Not Found"),
     GithubError(500, "dict", "Server Error"),
     GithubError(502, "none", ""),
     [kind |-> "other", status |-> 0, data |-> "none", message |-> "Connection reset"]}

\* f"ai-fix/issue-{issue_number}-{int(time.time())}"
BranchName(issue, t) == "ai-fix/issue-" \o ToString(issue) \o "-" \o ToString(t)

\* no exception
NoError == [kind |-> "none", status |-> 0, data |-> "none", message |-> ""]

\* one remote call, as recorded in `calls`: its arguments, whether it answered,
\* and the exception it raised otherwise
Call(op, path, ref, sha, content, ok) ==
    [op |-> op, path |-> path, ref |-> ref, sha |-> sha, content |-> content,
     ok |-> ok, err |-> NoError]

\* a log entry: the format string and the values put into it
LogEntry(fmt, args) == [fmt |-> fmt, args |-> args]

-----------------------------------------------------------------------------
(* pr_creator_node *)

ApplyIdle ==
    /\ original = <<>>
    /\ patch_block = <<>>
    /\ output = <<>>
    /\ offset = 0
    /\ scan = 0
    /\ applied = <<>>
    /\ result = <<>>
    /\ apc = "idle"

Envs ==
    {[token |-> TRUE, repo |-> TRUE],
     [token |-> FALSE, repo |-> TRUE],
     [token |-> TRUE, repo |-> FALSE]}

Init ==
    /\ state \in [patch : GeneratedPatches, issue_number : {IssueNumber}]
    /\ env \in Envs
    /\ remote \in Remotes
    /\ pc = "start"
    /\ patch = <<>>
    /\ file_blocks = <<>>
    /\ file_idx = 1
    /\ fetched = NoFetch
    /\ calls = <<>>
    /\ commits = <<>>
    /\ source_sha = NoSha
    /\ branch = NoBranch
    /\ pull = NoPull
    /\ ret = NoReturn
    /\ ApplyIdle /\ LocIdle /\ IdxIdle /\ ReadIdle /\ GraphIdle /\ AnaIdle

\* the dict returned by the node, mutated: every return carries the URL of a
\* pull request
ReturnedWithUrl(url, entry) == [pr_url |-> PrUrl, logs |-> <<entry>>]

\* the dict returned by the node: pr_url and one log entry
Returned(url, entry) == [pr_url |-> url, logs |-> <<entry>>]

\* the except clauses, mutated: a platform error is swallowed and the node
\* carries on with the file loop
OnExceptionResume(e) ==
    IF e.kind = "github"
    THEN [pc |-> "fetch", ret |-> NoReturn]
    ELSE [pc  |-> "done",
          ret |-> Returned("", LogEntry("PRCreator unexpected error: {exc}",
                                        <<e.message>>))]

\* the except clauses of the node (lines 222-229): where control goes and what
\* is returned. exc.data.get(...) on a GithubException without a dict payload
\* raises out of the handler.
OnException(e) ==
    IF e.kind = "github"
    THEN IF e.data = "dict"
         THEN [pc  |-> "done",
               ret |-> Returned("", LogEntry("GitHub API error {status}: {message}",
                                             <<ToString(e.status), e.message>>))]
         ELSE [pc |-> "raised", ret |-> NoReturn]
    ELSE [pc  |-> "done",
          ret |-> Returned("", LogEntry("PRCreator unexpected error: {exc}",
                                        <<e.message>>))]

\* a remote call raised e: the call is recorded and the handler runs
Abort(e, call) ==
    /\ calls' = Append(calls, [call EXCEPT !.err = e])
    /\ pc' = OnException(e).pc
    /\ ret' = OnException(e).ret

\* lines 149-156: the stripped patch is empty
SkipEmptyPatch ==
    /\ pc = "start"
    /\ Strip(state.patch) = <<>>
    /\ patch' = Strip(state.patch)
    /\ ret' = Returned("", LogEntry("PRCreator skipped: patch is empty", <<>>))
    /\ pc' = "done"
    /\ UNCHANGED <<state, env, remote, file_blocks, file_idx, fetched, calls,
                   commits, branch, pull>>
    /\ UNCHANGED source_sha
    /\ UNCHANGED besidesPub

\* lines 158-164: GITHUB_TOKEN or GITHUB_REPO is not set
ConfigMissing ==
    /\ pc = "start"
    /\ Strip(state.patch) # <<>>
    /\ ~(env.token /\ env.repo)
    /\ patch' = Strip(state.patch)
    /\ ret' = Returned("", LogEntry("PRCreator error: GitHub config missing",
                                    <<IF env.token THEN "set" ELSE "missing">>))
    /\ pc' = "done"
    /\ UNCHANGED <<state, env, remote, file_blocks, file_idx, fetched, calls,
                   commits, branch, pull>>
    /\ UNCHANGED source_sha
    /\ UNCHANGED besidesPub

StartGuard ==
    /\ pc = "start"
    /\ Strip(state.patch) # <<>>
    /\ env.token /\ env.repo

\* lines 167-169: g.get_repo(repo_name) answers
GetRepoOk ==
    /\ StartGuard
    /\ patch' = Strip(state.patch)
    /\ calls' = Append(calls, Call("get_repo", "", "", NoSha, <<>>, TRUE))
    /\ pc' = "get_branch"
    /\ UNCHANGED <<state, env, remote, file_blocks, file_idx, fetched,
                   commits, branch, pull, ret>>
    /\ UNCHANGED source_sha
    /\ UNCHANGED besidesPub

\* line 168: g.get_repo raises
GetRepoFail ==
    /\ StartGuard
    /\ patch' = Strip(state.patch)
    /\ \E e \in Failures : Abort(e, Call("get_repo", "", "", NoSha, <<>>, FALSE))
    /\ UNCHANGED <<state, env, remote, file_blocks, file_idx, fetched,
                   commits, branch, pull>>
    /\ UNCHANGED source_sha
    /\ UNCHANGED besidesPub

\* lines 172-173: repo.get_branch(default_branch).commit.sha
GetBranchOk ==
    /\ pc = "get_branch"
    /\ \E h \in HeadShas :
          /\ source_sha' = h
          /\ calls' = Append(calls, Call("get_branch", "", DefaultBranch, h, <<>>, TRUE))
    /\ pc' = "create_ref"
    /\ UNCHANGED <<state, env, remote, patch, file_blocks, file_idx, fetched,
                   commits, branch, pull, ret>>
    /\ UNCHANGED besidesPub

\* line 173: repo.get_branch raises
GetBranchFail ==
    /\ pc = "get_branch"
    /\ \E e \in Failures :
          Abort(e, Call("get_branch", "", DefaultBranch, NoSha, <<>>, FALSE))
    /\ UNCHANGED <<state, env, remote, patch, file_blocks, file_idx, fetched,
                   commits, branch, pull>>
    /\ UNCHANGED source_sha
    /\ UNCHANGED besidesPub

\* the arguments of create_git_ref, mutated: branch_name is the default branch
NewRefOnDefault(issue, sha) ==
    [name |-> DefaultBranch, sha |-> sha]

\* lines 172-174: the arguments of create_git_ref
NewRef(issue, sha) ==
    [name |-> BranchName(issue, Now), sha |-> sha]

\* lines 174-178: the branch is created from the head of the default branch,
\* then the patch is split per file
CreateRefOk ==
    /\ pc = "create_ref"
    /\ LET ref == NewRef(state.issue_number, source_sha) IN
       /\ calls' = Append(calls, Call("create_git_ref", "", ref.name, ref.sha, <<>>, TRUE))
       /\ branch' = ref
    /\ file_blocks' = SplitDiffByFile(patch)
    /\ file_idx' = 1
    /\ pc' = "fetch"
    /\ UNCHANGED <<state, env, remote, patch, fetched, commits, pull, ret>>
    /\ UNCHANGED source_sha
    /\ UNCHANGED besidesPub

\* line 174: create_git_ref raises (the name is taken, say)
CreateRefFail ==
    /\ pc = "create_ref"
    /\ \E e \in Failures :
          LET ref == NewRef(state.issue_number, source_sha) IN
          Abort(e, Call("create_git_ref", "", ref.name, ref.sha, <<>>, FALSE))
    /\ UNCHANGED <<state, env, remote, patch, file_blocks, file_idx, fetched,
                   commits, branch, pull>>
    /\ UNCHANGED source_sha
    /\ UNCHANGED besidesPub

InLoop == file_idx <= Len(file_blocks)
RelPath == file_blocks[file_idx].path

\* lines 120-126: get_contents answers with a file, or with a directory listing
FetchOk ==
    /\ pc = "fetch" /\ InLoop
    /\ remote[RelPath].status \in {"file", "dir"}
    /\ fetched' = [sha |-> remote[RelPath].sha, content |-> remote[RelPath].content]
    /\ calls' = Append(calls, Call("get_contents", RelPath, DefaultBranch,
                                   remote[RelPath].sha, <<>>, TRUE))
    /\ pc' = "write"
    /\ UNCHANGED <<state, env, remote, patch, file_blocks, file_idx,
                   commits, branch, pull, ret>>
    /\ UNCHANGED source_sha
    /\ UNCHANGED besidesPub

\* lines 127-129: get_contents raises 404, which stands for "no such file"
FetchNotFound ==
    /\ pc = "fetch" /\ InLoop
    /\ fetched' = [sha |-> NoSha, content |-> <<>>]
    /\ calls' = Append(calls, Call("get_contents", RelPath, DefaultBranch,
                                   NoSha, <<>>, TRUE))
    /\ pc' = "write"
    /\ UNCHANGED <<state, env, remote, patch, file_blocks, file_idx,
                   commits, branch, pull, ret>>
    /\ UNCHANGED source_sha
    /\ UNCHANGED besidesPub

\* line 130: any other error of get_contents is raised again
FetchFail ==
    /\ pc = "fetch" /\ InLoop
    /\ \E e \in Failures :
          /\ ~(e.kind = "github" /\ e.status = 404)
          /\ Abort(e, Call("get_contents", RelPath, DefaultBranch, NoSha, <<>>, FALSE))
    /\ UNCHANGED <<state, env, remote, patch, file_blocks, file_idx, fetched,
                   commits, branch, pull>>
    /\ UNCHANGED source_sha
    /\ UNCHANGED besidesPub

\* the write call of one iteration, mutated: always create_file
WriteCallAlwaysCreate(path, f, block, name) ==
    Call("create_file", path, name, NoSha, ApplyPatchToContent(f.content, block), TRUE)

\* lines 181-198: the write call of one iteration
WriteCall(path, f, block, name) ==
    IF f.sha = NoSha
    THEN Call("create_file", path, name, NoSha,
              ApplyPatchToContent(f.content, block), TRUE)
    ELSE Call("update_file", path, name, f.sha,
              ApplyPatchToContent(f.content, block), TRUE)

\* the platform accepts a create only where no file is, and an update only
\* with the blob identifier of the file it replaces
Accepts(c) ==
    IF c.op = "create_file" THEN remote[c.path].status = "absent"
    ELSE remote[c.path].status = "file" /\ c.sha = remote[c.path].sha

\* lines 181-199: the patched file is committed; the platform puts the commit
\* on the branch the call names
WriteOk ==
    /\ pc = "write"
    /\ LET c == WriteCall(RelPath, fetched, file_blocks[file_idx].block, branch.name) IN
       /\ Accepts(c)
       /\ calls' = Append(calls, c)
       /\ IF c.ref = DefaultBranch
          THEN /\ remote' = [remote EXCEPT ![c.path] =
                                [status |-> "file", sha |-> "blob-written",
                                 content |-> c.content]]
               /\ commits' = commits
          ELSE /\ commits' = Append(commits, [path |-> c.path, content |-> c.content])
               /\ remote' = remote
    /\ file_idx' = file_idx + 1
    /\ pc' = "fetch"
    /\ UNCHANGED <<state, env, patch, file_blocks, fetched, branch, pull, ret>>
    /\ UNCHANGED source_sha
    /\ UNCHANGED besidesPub

\* a failed write, mutated: the call is issued again
WriteFailRetry ==
    /\ pc = "write"
    /\ calls' = Append(calls, [WriteCall(RelPath, fetched, file_blocks[file_idx].block,
                                         branch.name) EXCEPT !.ok = FALSE])
    /\ UNCHANGED <<state, env, remote, pc, patch, file_blocks, file_idx, fetched,
                   commits, branch, pull, ret>>
    /\ UNCHANGED source_sha
    /\ UNCHANGED besidesPub

\* lines 185-198 raise: the write is refused or fails
WriteFail ==
    /\ pc = "write"
    /\ \E e \in Failures :
          Abort(e, [WriteCall(RelPath, fetched, file_blocks[file_idx].block, branch.name)
                      EXCEPT !.ok = FALSE])
    /\ UNCHANGED <<state, env, remote, patch, file_blocks, file_idx, fetched,
                   commits, branch, pull>>
    /\ UNCHANGED source_sha
    /\ UNCHANGED besidesPub

\* the arguments of create_pull, mutated: head and base swapped
PullRequestSwapped(name, issue, diff) ==
    [head |-> DefaultBranch, base |-> name, issue |-> issue, body |-> diff]

\* lines 202-214: the arguments of create_pull
PullRequest(name, issue, diff) ==
    [head |-> name, base |-> DefaultBranch, issue |-> issue, body |-> diff]

\* lines 202-220: the loop is over, the pull request is opened
CreatePullOk ==
    /\ pc = "fetch" /\ ~InLoop
    /\ calls' = Append(calls, Call("create_pull", "", branch.name, NoSha, <<>>, TRUE))
    /\ pull' = PullRequest(branch.name, state.issue_number, patch)
    /\ ret' = Returned(PrUrl, LogEntry("PR created: {url}", <<PrUrl>>))
    /\ pc' = "done"
    /\ UNCHANGED <<state, env, remote, patch, file_blocks, file_idx, fetched,
                   commits, branch>>
    /\ UNCHANGED source_sha
    /\ UNCHANGED besidesPub

\* lines 202-214: create_pull raises
CreatePullFail ==
    /\ pc = "fetch" /\ ~InLoop
    /\ \E e \in Failures :
          Abort(e, Call("create_pull", "", branch.name, NoSha, <<>>, FALSE))
    /\ UNCHANGED <<state, env, remote, patch, file_blocks, file_idx, fetched,
                   commits, branch, pull>>
    /\ UNCHANGED source_sha
    /\ UNCHANGED besidesPub

Next ==
    \/ SkipEmptyPatch \/ ConfigMissing
    \/ GetRepoOk \/ GetRepoFail
    \/ GetBranchOk \/ GetBranchFail
    \/ CreateRefOk \/ CreateRefFail
    \/ FetchOk \/ FetchNotFound \/ FetchFail
    \/ WriteOk \/ WriteFail
    \/ CreatePullOk \/ CreatePullFail

Spec == Init /\ [][Next]_vars

-----------------------------------------------------------------------------
(* Reading the history of a run, for stating properties *)

IsPrefix(a, b) == Len(a) <= Len(b) /\ a = SubSeq(b, 1, Len(a))

\* the calls of one of the operations in ops, in the order issued
CallsOf(ops) == SelectSeq(calls, LAMBDA c : c.op \in ops)

WriteOps == {"create_file", "update_file"}

PathsOf(cs) == [i \in 1..Len(cs) |-> cs[i].path]

\* place of path q in the sequence of paths ps, 0 when it is not there
IndexOf(ps, q) ==
    IF \E i \in 1..Len(ps) : ps[i] = q
    THEN CHOOSE i \in 1..Len(ps) : ps[i] = q /\ \A j \in 1..(i - 1) : ps[j] # q
    ELSE 0

\* the run came to an end without failing
Succeeded == pc = "done" /\ ret.pr_url # ""

\* the path after "+++ b/" of a file section
NewPathOf(sec) == sec[2].path

\* C4: a section "--- /dev/null" (new file) causes no lookup of /dev/null but
\* its patched content is still written to the paired "+++ b/<path>" on the
\* new branch.
C4_NewFileIsWritten ==
    Succeeded =>
        \A k \in 1..Len(Sections(patch)) :
            LET sec == Sections(patch)[k] IN
            SectionPath(sec) = DevNull =>
                /\ \A i \in 1..Len(calls) : calls[i].path # DevNull
                /\ \E i \in 1..Len(commits) :
                      /\ commits[i].path = NewPathOf(sec)
                      /\ commits[i].content = ApplyPatchToContent(<<>>, sec)

\* what the new branch must hold once a call for a file has failed
C5_StateAfterFileFailure ==
    \A i \in 1..Len(calls) :
        (~calls[i].ok /\ calls[i].op \in WriteOps \cup {"get_contents"}) =>
            LET k == IndexOf(ParseDiffFiles(patch), calls[i].path) IN
            /\ i = Len(calls)
            /\ k >= 1
            /\ PathsOf(commits) = SubSeq(ParseDiffFiles(patch), 1, k - 1)
            /\ pull = NoPull

\* C5: if the fetch or write of the k-th touched file fails, the branch holds
\* exactly the commits of the first k-1 touched files in diff order: nothing
\* is written after the failure, no commit is undone (the sequence of commits
\* only grows), and no pull request is opened.
C5_PartialFailureKeepsCommits ==
    /\ []C5_StateAfterFileFailure
    /\ [][IsPrefix(commits, commits') /\ (pull = NoPull \/ pull' = pull)]_vars

\* C5 witness (Scenario D): the write of the second of three files failed
C5_Witness ==
    /\ pc = "done"
    /\ Len(file_blocks) = 3
    /\ Len(commits) = 1
    /\ calls # <<>>
    /\ ~calls[Len(calls)].ok
    /\ calls[Len(calls)].op \in WriteOps
    /\ calls[Len(calls)].path = file_blocks[2].path

\* the log entry names value v
Names(entry, v) == \E i \in 1..Len(entry.args) : entry.args[i] = v

\* C6: when the run fails after the branch was created, the returned log entry
\* names the created branch and the last file that was committed.
C6_FailureNamesBranchAndFile ==
    (pc = "done" /\ ret.pr_url = "" /\ branch # NoBranch) =>
        \E n \in 1..Len(ret.logs) :
            /\ Names(ret.logs[n], branch.name)
            /\ commits # <<>> => Names(ret.logs[n], commits[Len(commits)].path)

\* every hunk of the sections of patch p for path q, as one block
AllHunksOf(p, q) ==
    Flatten([k \in 1..Len(Sections(p)) |->
               IF SectionPath(Sections(p)[k]) = q
               THEN SelectSeq(Sections(p)[k], LAMBDA l : l.kind \notin {"old", "new"})
               ELSE <<>>])

\* C7: in a run that does not fail, every touched file is fetched from the
\* default branch, patched and written to the new branch exactly once, in the
\* order of first appearance in the diff, also when a path has more than one
\* file section (all of that path's hunks are applied).
C7_EveryFileOnceInOrder ==
    Succeeded =>
        LET touched == ParseDiffFiles(patch)
            gets    == CallsOf({"get_contents"})
            writes  == CallsOf(WriteOps)
        IN  /\ PathsOf(gets) = touched
            /\ PathsOf(writes) = touched
            /\ \A i \in 1..Len(gets) : gets[i].ref = DefaultBranch
            /\ \A i \in 1..Len(writes) :
                  /\ writes[i].ref = branch.name
                  /\ writes[i].content =
                        ApplyPatchToContent(remote[writes[i].path].content,
                                            AllHunksOf(patch, writes[i].path))

\* the get_contents call that an iteration's write call follows
FetchBefore(i) ==
    CHOOSE j \in 1..(i - 1) :
        /\ calls[j].op = "get_contents"
        /\ \A m \in (j + 1)..(i - 1) : calls[m].op # "get_contents"

\* C8: a file is created if and only if its fetch returned no blob identifier,
\* and is otherwise updated with exactly the blob identifier the fetch
\* returned.
C8_CreateIffNoBlobId ==
    \A i \in 1..Len(calls) :
        calls[i].op \in WriteOps =>
            /\ \E j \in 1..(i - 1) : calls[j].op = "get_contents"
            /\ LET g == calls[FetchBefore(i)] IN
               /\ g.ok
               /\ g.path = calls[i].path
               /\ (calls[i].op = "create_file") <=> (g.sha = NoSha)
               /\ calls[i].op = "update_file" =>
                     (calls[i].sha = g.sha /\ calls[i].sha # NoSha)
               /\ calls[i].op = "create_file" => calls[i].sha = NoSha

\* C8 witness: one run issued an update for a file that has a blob identifier
\* and a create for one that has none
C8_Witness ==
    /\ \E i \in 1..Len(calls) : calls[i].op = "update_file" /\ calls[i].ok
    /\ \E i \in 1..Len(calls) : calls[i].op = "create_file" /\ calls[i].ok

\* C9: the branch is created from the default branch's head commit before any
\* file write; the pull request is opened only after every touched file was
\* written; it goes from the new branch to the default branch and its body
\* carries the issue reference and the diff text as handed over.
C9_PublishOrder ==
    /\ \A i \in 1..Len(calls) :
          calls[i].op \in WriteOps =>
              \E j \in 1..(i - 1) :
                  /\ calls[j].op = "create_git_ref" /\ calls[j].ok
                  /\ calls[j].ref = calls[i].ref
                  /\ \E m \in 1..(j - 1) :
                        /\ calls[m].op = "get_branch" /\ calls[m].ok
                        /\ calls[m].ref = DefaultBranch
                        /\ calls[m].sha = calls[j].sha
    /\ \A i \in 1..Len(calls) :
          calls[i].op = "create_pull" =>
              \A q \in {ParseDiffFiles(patch)[n] : n \in 1..Len(ParseDiffFiles(patch))} :
                  \E j \in 1..(i - 1) :
                      calls[j].op \in WriteOps /\ calls[j].ok /\ calls[j].path = q
    /\ pull # NoPull =>
          /\ branch # NoBranch
          /\ pull.head = branch.name
          /\ pull.base = DefaultBranch
          /\ pull.issue = state.issue_number
          /\ pull.body = state.patch

\* C9 witness: a pull request was opened after two files were written
C9_Witness ==
    /\ pull # NoPull
    /\ Len(commits) >= 2
    /\ Succeeded

CountCalls(ops, q) ==
    Cardinality({i \in 1..Len(calls) : calls[i].op \in ops /\ calls[i].path = q})

\* C10: nothing is retried. In one run create-branch and create-pull-request
\* are each called at most once, and get-file and create/update-file at most
\* once per path, whatever the calls answer.
C10_NoRetry ==
    /\ CountCalls({"get_repo"}, "") <= 1
    /\ CountCalls({"get_branch"}, "") <= 1
    /\ CountCalls({"create_git_ref"}, "") <= 1
    /\ CountCalls({"create_pull"}, "") <= 1
    /\ \A q \in Paths \cup {DevNull} :
          /\ CountCalls({"get_contents"}, q) <= 1
          /\ CountCalls(WriteOps, q) <= 1

\* C10 witness: a write failed after an earlier file was committed, and the
\* run is over
C10_Witness ==
    /\ pc \in {"done", "raised"}
    /\ commits # <<>>
    /\ \E i \in 1..Len(calls) : ~calls[i].ok /\ calls[i].op \in WriteOps

\* the run of the publish step is over: the node returned or raised
PublishOver == pc \in {"done", "raised"}

\* C26: at the end of a run pr_url is set only if, in this run, the branch
\* was created, every touched file of the diff was written to that branch and
\* create-pull-request succeeded; with an empty patch, a missing repository
\* configuration or a failed remote call pr_url is unset.
C26_PrUrlOnlyAfterFullPublish ==
    PublishOver =>
        /\ ret.pr_url # "" =>
              /\ branch # NoBranch
              /\ \E i \in 1..Len(calls) :
                    calls[i].op = "create_git_ref" /\ calls[i].ok /\ calls[i].ref = branch.name
              /\ \A n \in 1..Len(ParseDiffFiles(patch)) :
                    \E i \in 1..Len(calls) :
                        /\ calls[i].op \in WriteOps /\ calls[i].ok
                        /\ calls[i].path = ParseDiffFiles(patch)[n]
                        /\ calls[i].ref = branch.name
              /\ PathsOf(commits) = ParseDiffFiles(patch)
              /\ calls[Len(calls)].op = "create_pull" /\ calls[Len(calls)].ok
              /\ pull # NoPull /\ pull.head = branch.name
        /\ (\/ Strip(state.patch) = <<>>
            \/ ~(env.token /\ env.repo)
            \/ \E i \in 1..Len(calls) : ~calls[i].ok) => ret.pr_url = ""

\* C26 witness: a run wrote two files to the new branch, opened the pull
\* request and ended with pr_url set
C26_Witness ==
    /\ PublishOver
    /\ ret.pr_url = PrUrl
    /\ Len(commits) = 2
    /\ Len(ParseDiffFiles(patch)) = 2

\* every get-file call names the default branch, every write call names the
\* branch this run created, which is not the default branch
CallsKeepToTheirBranch ==
    \A i \in 1..Len(calls) :
        /\ calls[i].op = "get_contents" => calls[i].ref = DefaultBranch
        /\ calls[i].op \in WriteOps =>
              /\ calls[i].ref # DefaultBranch
              /\ calls[i].ref = branch.name
              /\ \E j \in 1..(i - 1) :
                    /\ calls[j].op = "create_git_ref" /\ calls[j].ok
                    /\ calls[j].ref = calls[i].ref

\* C27: the publish transaction never writes to the default branch: get-file
\* calls read from the default branch, create-file and update-file calls
\* target the newly created branch, and no step of a run, successful or
\* failed, changes a file of the default branch.
C27_DefaultBranchUntouched ==
    /\ []CallsKeepToTheirBranch
    /\ [][remote' = remote]_vars

\* C27 witness: a run updated a file and created another on the new branch
\* and then failed; the default branch still has the first as it was and
\* does not have the second
C27_Witness ==
    /\ PublishOver /\ ret.pr_url = ""
    /\ \E i, j \in 1..Len(commits) :
          /\ remote[commits[i].path] = FileAt(commits[i].path)
          /\ remote[commits[j].path].status = "absent"
    /\ \E i \in 1..Len(calls) : calls[i].op = "update_file" /\ calls[i].ok
    /\ \E i \in 1..Len(calls) : calls[i].op = "create_file" /\ calls[i].ok

\* the file section the run applied to path q, and the text it was applied to
BlockOf(q) == file_blocks[CHOOSE k \in 1..Len(file_blocks) : file_blocks[k].path = q].block
FetchedText(q) == IF remote[q].status = "file" THEN remote[q].content ELSE <<>>

\* C29: the content written for a file has exactly as many lines as the
\* original plus, over the hunks of its section, the lines emitted minus the
\* lines declared replaced, each of them newline-terminated: the last line
\* emitted is not joined with the original line that follows it.
C29_WrittenLineCount ==
    \A i \in 1..Len(calls) :
        (calls[i].op \in WriteOps
            /\ RangesInside(FetchedText(calls[i].path), BlockOf(calls[i].path))) =>
            LET block == BlockOf(calls[i].path)
            IN  /\ Len(calls[i].content)
                     = Len(FetchedText(calls[i].path))
                       + NetBefore(block, Len(HunkIndexes(block)) + 1)
                /\ \A n \in 1..Len(calls[i].content) : calls[i].content[n].nl

-----------------------------------------------------------------------------
(* The publish step when there is nothing to publish, and when a call fails *)

\* the text has no file header and no hunk header
NoDiffIn(p) == \A i \in 1..Len(p) : p[i].kind \notin {"old", "new", "hunk"}

\* C11: a patch that is empty, or non-empty text without any recognizable file
\* section or hunk, is treated as "no patch": no branch is created, no file
\* is written, no pull request is opened, and the run reports the "patch is
\* empty" condition, which is not the report of a platform failure.
C11_NoPatchNoRemoteEffect ==
    NoDiffIn(state.patch) =>
        /\ branch = NoBranch
        /\ commits = <<>>
        /\ pull = NoPull
        /\ \A i \in 1..Len(calls) : calls[i].op \notin {"create_git_ref", "create_pull"}
        /\ (pc = "done" /\ env.token /\ env.repo) =>
              ret = Returned("", LogEntry("PRCreator skipped: patch is empty", <<>>))

\* C12: a platform error raised by a remote call (other than not-found on
\* get-file, which never reaches the handler) aborts only the publish step:
\* the node returns normally, issues no further remote call, leaves pr_url
\* unset and returns a log entry with the error's status code and message.
C12_PlatformErrorAbortsPublish ==
    \A i \in 1..Len(calls) :
        (~calls[i].ok /\ calls[i].err.kind = "github") =>
            /\ i = Len(calls)
            /\ pc = "done"
            /\ ret.pr_url = ""
            /\ pull = NoPull
            /\ Len(ret.logs) = 1
            /\ Names(ret.logs[1], ToString(calls[i].err.status))
            /\ Names(ret.logs[1], calls[i].err.message)

-----------------------------------------------------------------------------
(* file_locator.py: paths, hit counts, ripgrep *)

\* A path or a path hint is the sequence of its characters.
FileA   == <<"/", "s", "/", "a">>
FileB   == <<"/", "s", "/", "b">>
FileC   == <<"/", "t", "/", "a">>
\* a file whose name holds a backslash
FileD   == <<"/", "s", "\\", "d">>
\* a file that is not TypeScript, and one below node_modules
FileJs  == <<"/", "s", "/", "j">>
FileDep == <<"/", "n", "/", "a">>

\* str.replace("\\", "/")
Norm(s) == [i \in 1..Len(s) |-> IF s[i] = "\\" THEN "/" ELSE s[i]]

\* `needle in hay`
Contains(hay, needle) ==
    \E i \in 0..(Len(hay) - Len(needle)) : SubSeq(hay, i + 1, i + Len(needle)) = needle

\* list(dict.fromkeys(xs)): the first occurrence of every element, in order
RECURSIVE Dedupe(_)
Dedupe(xs) ==
    IF xs = <<>> THEN <<>>
    ELSE LET front == Dedupe(SubSeq(xs, 1, Len(xs) - 1))
             last  == xs[Len(xs)]
         IN  IF \E i \in 1..Len(front) : front[i] = last THEN front
             ELSE Append(front, last)

\* A Dict[str, int] in insertion order: a sequence of [path, n], no path twice.
HasKey(d, p) == \E i \in 1..Len(d) : d[i].path = p
KeyAt(d, p)  == CHOOSE i \in 1..Len(d) : d[i].path = p
Score(d, p)  == IF HasKey(d, p) THEN d[KeyAt(d, p)].n ELSE 0
Keys(d)      == [i \in 1..Len(d) |-> d[i].path]

\* d[p] += n on a defaultdict(int)
AddTo(d, p, n) ==
    IF HasKey(d, p) THEN [d EXCEPT ![KeyAt(d, p)].n = @ + n]
    ELSE Append(d, [path |-> p, n |-> n])

\* one line of `rg --json` output: a JSON object of some type about a path,
\* or text that is not JSON
JsonLine(type, p) == [type |-> type, path |-> p]
NotJson == [type |-> "not json", path |-> <<>>]

\* lines 171-178: every line that parses and has type "match" counts one hit
\* for its path
RECURSIVE CountMatches(_)
CountMatches(lines) ==
    IF lines = <<>> THEN <<>>
    ELSE LET front == CountMatches(SubSeq(lines, 1, Len(lines) - 1))
             last  == lines[Len(lines)]
         IN  IF last.type = "match" THEN AddTo(front, last.path, 1) ELSE front

\* the call for `term` raises FileNotFoundError or TimeoutExpired
RgFails(tool, proj, term) ==
    proj.isdir /\ (~tool.installed \/ tool.out[term].status = "timeout")

\* _rg_search, mutated: the lines printed before the timeout are counted
RgSearchKeepsPartial(tool, proj, term) ==
    IF ~proj.isdir THEN <<>>
    ELSE IF ~tool.installed THEN <<>>
    ELSE CountMatches(tool.out[term].lines)

\* _rg_search(term, project_path)
RgSearch(tool, proj, term) ==
    IF ~proj.isdir THEN <<>>
    ELSE IF ~tool.installed THEN <<>>
    ELSE IF tool.out[term].status = "timeout" THEN <<>>
    ELSE CountMatches(tool.out[term].lines)

\* `for path, count in hits.items(): scores[path] += count`
RECURSIVE Merge(_, _)
Merge(d, hits) ==
    IF hits = <<>> THEN d
    ELSE Merge(AddTo(d, hits[1].path, hits[1].n), Tail(hits))

-----------------------------------------------------------------------------
(* file_locator.py: the symbol index *)

\* The index is a dict in insertion order: a sequence of [sym, paths].
HasSym(ix, s) == \E i \in 1..Len(ix) : ix[i].sym = s
SymAt(ix, s)  == CHOOSE i \in 1..Len(ix) : ix[i].sym = s
\* index.get(sym, [])
PathsFor(ix, s) == IF HasSym(ix, s) THEN ix[SymAt(ix, s)].paths ELSE <<>>
InList(xs, x) == \E i \in 1..Len(xs) : xs[i] = x

\* lines 91-93: `if abs_path not in index[symbol]: index[symbol].append(abs_path)`
AddExport(ix, s, p) ==
    IF ~HasSym(ix, s) THEN Append(ix, [sym |-> s, paths |-> <<p>>])
    ELSE IF InList(PathsFor(ix, s), p) THEN ix
    ELSE [ix EXCEPT ![SymAt(ix, s)].paths = Append(@, p)]

RECURSIVE AddExports(_, _, _)
AddExports(ix, syms, p) ==
    IF syms = <<>> THEN ix ELSE AddExports(AddExport(ix, Head(syms), p), Tail(syms), p)

\* A file of the tree, in os.walk order: its path, whether its name ends in
\* ".ts", whether it lies below a skipped directory, whether it can be opened,
\* and the names _EXPORT_RE finds in it, in order.
TreeFile(p, ts, pruned, readable, exports) ==
    [path |-> p, ts |-> ts, pruned |-> pruned, readable |-> readable,
     exports |-> exports]

\* build_symbol_index(project_path)
RECURSIVE BuildSymbolIndex(_)
BuildSymbolIndex(files) ==
    IF files = <<>> THEN <<>>
    ELSE LET front == BuildSymbolIndex(SubSeq(files, 1, Len(files) - 1))
             f     == files[Len(files)]
         IN  IF f.pruned \/ ~f.ts \/ ~f.readable THEN front
             ELSE AddExports(front, f.exports, f.path)

\* The text of the cache file is a sequence of tokens: "{", a key, "[", a
\* path, "]", "}", or a run of NUL bytes (a hole left by a write past the end).
Tok(t)     == [t |-> t, v |-> <<>>]
KeyTok(s)  == [t |-> "key", v |-> s]
PathTok(p) == [t |-> "path", v |-> p]

\* json.dump(index, fh, indent=2), mutated: every path list is written in
\* reverse
SerializeIndexReversed(ix) ==
    <<Tok("{")>>
    \o Flatten([i \in 1..Len(ix) |->
                  <<KeyTok(ix[i].sym), Tok("[")>>
                  \o [k \in 1..Len(ix[i].paths) |->
                        PathTok(ix[i].paths[Len(ix[i].paths) + 1 - k])]
                  \o <<Tok("]")>>])
    \o <<Tok("}")>>

\* json.dump(index, fh, indent=2)
SerializeIndex(ix) ==
    <<Tok("{")>>
    \o Flatten([i \in 1..Len(ix) |->
                  <<KeyTok(ix[i].sym), Tok("[")>>
                  \o [k \in 1..Len(ix[i].paths) |-> PathTok(ix[i].paths[k])]
                  \o <<Tok("]")>>])
    \o <<Tok("}")>>

\* d[key] = value on a dict: a key that is there keeps its place
IndexSet(ix, s, ps) ==
    IF HasSym(ix, s) THEN [ix EXCEPT ![SymAt(ix, s)].paths = ps]
    ELSE Append(ix, [sym |-> s, paths |-> ps])

ParseFailed == [ok |-> FALSE, index |-> <<>>]

\* the members of a JSON object, up to and including its "}"
RECURSIVE ParseMembers(_, _)
ParseMembers(toks, acc) ==
    IF toks = <<>> THEN ParseFailed
    ELSE IF toks[1].t = "}"
    THEN IF Len(toks) = 1 THEN [ok |-> TRUE, index |-> acc] ELSE ParseFailed
    ELSE IF Len(toks) >= 2 /\ toks[1].t = "key" /\ toks[2].t = "["
    THEN LET ends == {k \in 3..Len(toks) : toks[k].t # "path"}
         IN  IF ends = {} THEN ParseFailed
             ELSE LET k == CHOOSE e \in ends : \A o \in ends : e <= o
                  IN  IF toks[k].t # "]" THEN ParseFailed
                      ELSE ParseMembers(
                               SubSeq(toks, k + 1, Len(toks)),
                               IndexSet(acc, toks[1].v,
                                        [j \in 1..(k - 3) |-> toks[j + 2].v]))
    ELSE ParseFailed

\* json.load(fh): the index, or JSONDecodeError
ParseIndex(toks) ==
    IF toks # <<>> /\ toks[1].t = "{" THEN ParseMembers(Tail(toks), <<>>)
    ELSE ParseFailed

\* _load_or_build_index, mutated: the index is rebuilt and written on every
\* call
LoadOrBuildIndexAlways(proj, file, force) ==
    [ok    |-> TRUE,
     index |-> BuildSymbolIndex(proj.files),
     cache |-> [exists |-> TRUE,
                text   |-> SerializeIndex(BuildSymbolIndex(proj.files))]]

\* _load_or_build_index for an instance that runs alone: the index returned
\* (or the exception), and the cache file it leaves
LoadOrBuildIndex(proj, file, force) ==
    IF force \/ ~file.exists
    THEN [ok    |-> TRUE,
          index |-> BuildSymbolIndex(proj.files),
          cache |-> [exists |-> TRUE,
                     text   |-> SerializeIndex(BuildSymbolIndex(proj.files))]]
    ELSE [ok    |-> ParseIndex(file.text).ok,
          index |-> ParseIndex(file.text).index,
          cache |-> file]

\* _index_search(symbols, index)
RECURSIVE IndexSearch(_, _)
IndexSearch(symbols, ix) ==
    IF symbols = <<>> THEN <<>>
    ELSE LET front == IndexSearch(SubSeq(symbols, 1, Len(symbols) - 1), ix)
             ps    == PathsFor(ix, symbols[Len(symbols)])
         IN  Merge(front, [k \in 1..Len(ps) |-> [path |-> ps[k], n |-> 1]])

\* the weight of an index hit, mutated: counted once
IndexWeightOnce(count) == count

\* line 243: `scores[path] += count * 2`
IndexWeight(count) == count * 2

Weighted(hits) == [k \in 1..Len(hits) |-> [path |-> hits[k].path,
                                           n    |-> IndexWeight(hits[k].n)]]

\* one hint, mutated: the hint itself is looked up in the defaultdict and so
\* becomes a scored path
AddHintAsKey(d, hint) ==
    AddTo([i \in 1..Len(d) |->
              IF Contains(Norm(d[i].path), Norm(hint))
              THEN [d[i] EXCEPT !.n = @ + 1] ELSE d[i]],
          Norm(hint), 0)

\* lines 249-252: one hint adds 1 to every scored path that holds it
AddHint(d, hint) ==
    [i \in 1..Len(d) |->
        IF Contains(Norm(d[i].path), Norm(hint))
        THEN [d[i] EXCEPT !.n = @ + 1] ELSE d[i]]

\* sorted(keys, key=score)[::-1], a mutation of line 255: by descending
\* score, equal scores in the reverse of the insertion order
SortedAscendingReversed(d) ==
    LET place(i) == 1 + Cardinality({j \in 1..Len(d) :
                                        \/ d[j].n > d[i].n
                                        \/ d[j].n = d[i].n /\ j > i})
    IN  [k \in 1..Len(d) |-> d[CHOOSE i \in 1..Len(d) : place(i) = k].path]

\* sorted(keys, key=score, reverse=True): by descending score, equal scores
\* in insertion order
SortedByScore(d) ==
    LET place(i) == 1 + Cardinality({j \in 1..Len(d) :
                                        \/ d[j].n > d[i].n
                                        \/ d[j].n = d[i].n /\ j < i})
    IN  [k \in 1..Len(d) |-> d[CHOOSE i \in 1..Len(d) : place(i) = k].path]

\* lst[:n]
Prefix(lst, n) ==
    IF n >= 0 THEN SubSeq(lst, 1, Min(n, Len(lst)))
    ELSE SubSeq(lst, 1, Max(Len(lst) + n, 0))

\* line 255, mutated: the list is not cut
RankedUncut(d, cap) == SortedByScore(d)

\* line 255
Ranked(d, cap) == Prefix(SortedByScore(d), cap)

-----------------------------------------------------------------------------
(* Inputs of file_locator_node *)

\* runs of file_locator_node against one unchanged tree and ripgrep
MaxRuns == 2

\* MAX_FILES when MAX_LOCATED_FILES is not set
DefaultMaxFiles == 5
\* int(os.getenv("MAX_LOCATED_FILES", "5")): any integer
Caps == {-1, 0, 2, DefaultMaxFiles}

Terms == {"Foo", "Bar", "Baz", "login"}

SymbolLists  == {<<>>, <<"Foo">>, <<"Bar", "Foo">>, <<"Foo", "Baz", "Foo">>}
KeywordLists == {<<>>, <<"Foo", "login">>}

HintSA    == <<"s", "/", "a">>
HintSBack == <<"s", "\\">>
HintT     == <<"t">>
HintLists == {<<>>, <<HintSA>>, <<HintSBack, HintT, HintSBack>>}

TreeOne ==
    <<TreeFile(FileA, TRUE, FALSE, TRUE, <<"Foo", "Bar", "Foo">>),
      TreeFile(FileDep, TRUE, TRUE, TRUE, <<"Foo">>),
      TreeFile(FileB, TRUE, FALSE, TRUE, <<"Bar">>),
      TreeFile(FileJs, FALSE, FALSE, TRUE, <<"Foo">>),
      TreeFile(FileC, TRUE, FALSE, FALSE, <<"Foo">>),
      TreeFile(FileD, TRUE, FALSE, TRUE, <<"Foo">>)>>
TreeTwo ==
    <<TreeFile(FileB, TRUE, FALSE, TRUE, <<"Foo">>),
      TreeFile(FileA, TRUE, FALSE, TRUE, <<"Foo">>),
      TreeFile(FileC, TRUE, FALSE, TRUE, <<"Bar">>)>>

Projects ==
    {[isdir |-> FALSE, files |-> <<>>],
     [isdir |-> TRUE, files |-> TreeOne],
     [isdir |-> TRUE, files |-> TreeTwo]}

\* the cache file: not there, written for an older tree, or cut short
StaleCache ==
    [exists |-> TRUE, text |-> SerializeIndex(<<[sym |-> "Foo", paths |-> <<FileC, FileA>>]>>)]
CutCache ==
    [exists |-> TRUE, text |-> SubSeq(SerializeIndex(BuildSymbolIndex(TreeOne)), 1, 4)]
Caches == {NoFile, StaleCache, CutCache}

RgAnswer(status, lines) == [status |-> status, lines |-> lines]
RgOut ==
    [t \in Terms |->
        CASE t = "Foo"   -> RgAnswer("ok", <<JsonLine("begin", FileA), JsonLine("match", FileA),
                                             JsonLine("match", FileA), JsonLine("end", FileA),
                                             JsonLine("match", FileB), NotJson>>)
          [] t = "Bar"   -> RgAnswer("ok", <<JsonLine("match", FileC), JsonLine("match", FileB)>>)
          [] t = "login" -> RgAnswer("ok", <<JsonLine("match", FileC), JsonLine("match", FileD),
                                             JsonLine("summary", <<>>)>>)
          [] OTHER       -> RgAnswer("ok", <<>>)]
\* the search for term t runs into the timeout after printing one line
TimesOut(t) ==
    [RgOut EXCEPT ![t] = RgAnswer("timeout", SubSeq(RgOut[t].lines, 1, 2))]

RgTools ==
    {[installed |-> FALSE, out |-> RgOut],
     [installed |-> TRUE, out |-> RgOut],
     [installed |-> TRUE, out |-> TimesOut("Foo")],
     [installed |-> TRUE, out |-> TimesOut("login")]}

-----------------------------------------------------------------------------
(* file_locator_node *)

InitLocate ==
    /\ signals \in [keywords : KeywordLists, symbols : SymbolLists,
                    file_hints : HintLists]
    /\ project \in Projects
    /\ cache \in Caches
    /\ force_rebuild \in BOOLEAN
    /\ rg \in RgTools
    /\ max_files \in Caps
    /\ search_terms = <<>>
    /\ term_idx = 1
    /\ scores = <<>>
    /\ index = <<>>
    /\ hint_idx = 1
    /\ ranked = <<>>
    /\ lpc = "start"
    /\ run = 1
    /\ results = <<>>
    /\ ApplyIdle /\ PubIdle /\ IdxIdle /\ ReadIdle /\ GraphIdle /\ AnaIdle

locInputs == <<signals, project, force_rebuild, rg, max_files>>

\* lines 223-232: a fresh frame; symbols first, then keywords, each term once
LocateStart ==
    /\ lpc = "start"
    /\ search_terms' = Dedupe(signals.symbols \o signals.keywords)
    /\ term_idx' = 1
    /\ scores' = <<>>
    /\ index' = <<>>
    /\ hint_idx' = 1
    /\ ranked' = <<>>
    /\ lpc' = "search"
    /\ UNCHANGED <<locInputs, cache, run, results>>
    /\ UNCHANGED besidesLoc

\* lines 233-235: one term is searched and its hits are added
SearchTerm ==
    /\ lpc = "search"
    /\ term_idx <= Len(search_terms)
    /\ scores' = Merge(scores, RgSearch(rg, project, search_terms[term_idx]))
    /\ term_idx' = term_idx + 1
    /\ UNCHANGED <<locInputs, cache, search_terms, index, hint_idx, ranked, lpc,
                   run, results>>
    /\ UNCHANGED besidesLoc

\* line 238: no symbols, the index is not consulted
SkipIndex ==
    /\ lpc = "search"
    /\ term_idx > Len(search_terms)
    /\ signals.symbols = <<>>
    /\ lpc' = "hints"
    /\ UNCHANGED <<locInputs, cache, search_terms, term_idx, scores, index,
                   hint_idx, ranked, run, results>>
    /\ UNCHANGED besidesLoc

\* lines 238-243: the index is loaded or built, every hit counts twice
IndexStrategy ==
    /\ lpc = "search"
    /\ term_idx > Len(search_terms)
    /\ signals.symbols # <<>>
    /\ LET r == LoadOrBuildIndex(project, cache, force_rebuild) IN
       /\ r.ok
       /\ index' = r.index
       /\ cache' = r.cache
       /\ scores' = Merge(scores, Weighted(IndexSearch(signals.symbols, r.index)))
    /\ lpc' = "hints"
    /\ UNCHANGED <<locInputs, search_terms, term_idx, hint_idx, ranked, run, results>>
    /\ UNCHANGED besidesLoc

\* line 121: json.load raises on a cache file that is not JSON
IndexLoadRaises ==
    /\ lpc = "search"
    /\ term_idx > Len(search_terms)
    /\ signals.symbols # <<>>
    /\ ~LoadOrBuildIndex(project, cache, force_rebuild).ok
    /\ lpc' = "raised"
    /\ UNCHANGED <<locInputs, cache, search_terms, term_idx, scores, index,
                   hint_idx, ranked, run, results>>
    /\ UNCHANGED besidesLoc

\* lines 248-252: one hint
HintBonus ==
    /\ lpc = "hints"
    /\ hint_idx <= Len(signals.file_hints)
    /\ scores' = AddHint(scores, signals.file_hints[hint_idx])
    /\ hint_idx' = hint_idx + 1
    /\ UNCHANGED <<locInputs, cache, search_terms, term_idx, index, ranked, lpc,
                   run, results>>
    /\ UNCHANGED besidesLoc

\* lines 255-262: sort, cut, return
RankAndReturn ==
    /\ lpc = "hints"
    /\ hint_idx > Len(signals.file_hints)
    /\ ranked' = Ranked(scores, max_files)
    /\ results' = Append(results, Ranked(scores, max_files))
    /\ lpc' = "done"
    /\ UNCHANGED <<locInputs, cache, search_terms, term_idx, scores, index,
                   hint_idx, run>>
    /\ UNCHANGED besidesLoc

\* the node is run again for the same signals
LocateAgain ==
    /\ lpc = "done"
    /\ run < MaxRuns
    /\ run' = run + 1
    /\ lpc' = "start"
    /\ UNCHANGED <<locInputs, cache, search_terms, term_idx, scores, index,
                   hint_idx, ranked, results>>
    /\ UNCHANGED besidesLoc

NextLocate ==
    \/ LocateStart \/ SearchTerm
    \/ SkipIndex \/ IndexStrategy \/ IndexLoadRaises
    \/ HintBonus \/ RankAndReturn \/ LocateAgain

SpecLocate == InitLocate /\ [][NextLocate]_vars

-----------------------------------------------------------------------------
(* Properties of file_locator_node *)

NoDuplicates(xs) == \A i, j \in 1..Len(xs) : xs[i] = xs[j] => i = j

LocatorFiles == {FileA, FileB, FileC, FileD, FileJs, FileDep}

\* C13 as stated: for all signals, index contents and search results and for
\* every configured cap value, located_files has no duplicates and at most
\* MAX_FILES entries.
C13_CappedNoDuplicates ==
    lpc = "done" => NoDuplicates(ranked) /\ Len(ranked) <= max_files

\* C13, amended: located_files has no duplicates, and for every configured
\* cap value that is not negative it has at most MAX_FILES entries.
C13_CappedForNonNegativeCap ==
    lpc = "done" =>
        /\ NoDuplicates(ranked)
        /\ max_files >= 0 => Len(ranked) <= max_files

\* C13 witness: more files were scored than the cap allows
C13_Witness ==
    /\ lpc = "done"
    /\ max_files = 2
    /\ Len(scores) > 2
    /\ Len(ranked) = 2

\* C14: runs with the same signals, the same persisted index and the same
\* search results return the same located_files in the same order.
C14_SameInputsSameRanking ==
    \A i, j \in 1..Len(results) : results[i] = results[j]

\* C14 witness: two runs have returned, the first built the index and the
\* second loaded it, and two of the files located have equal scores
C14_Witness ==
    /\ Len(results) >= 2
    /\ ~force_rebuild /\ cache.exists /\ index # <<>>
    /\ \E i, j \in 1..Len(scores) :
          /\ i # j /\ scores[i].n = scores[j].n
          /\ InList(ranked, scores[i].path) /\ InList(ranked, scores[j].path)

\* the number of symbol signals that have p among their defining files
SymbolsDefinedIn(p) ==
    Cardinality({i \in 1..Len(signals.symbols) :
                    InList(PathsFor(index, signals.symbols[i]), p)})

\* C15: a file that N symbol signals have among their defining files in the
\* index has a total score of at least 2 * N, whatever the lexical search adds.
C15_IndexScoreAtLeastTwicePerSymbol ==
    lpc \in {"hints", "done"} =>
        \A p \in LocatorFiles : Score(scores, p) >= 2 * SymbolsDefinedIn(p)

\* C15 witness: a file defines two of the symbols and nothing else scores it
C15_Witness ==
    /\ lpc = "done"
    /\ \E p \in LocatorFiles :
          SymbolsDefinedIn(p) >= 2 /\ Score(scores, p) = 2 * SymbolsDefinedIn(p)

\* the match lines rg prints for term t about path p
MatchLines(t, p) ==
    Cardinality({i \in 1..Len(rg.out[t].lines) :
                    rg.out[t].lines[i].type = "match" /\ rg.out[t].lines[i].path = p})

TermSeq == <<"Foo", "Bar", "Baz", "login">>
Searched(t) == InList(signals.symbols, t) \/ InList(signals.keywords, t)

\* what the searches that did not fail found about p
LexicalScore(p) ==
    SumSeq([i \in 1..Len(TermSeq) |->
              IF /\ Searched(TermSeq[i])
                 /\ project.isdir
                 /\ ~RgFails(rg, project, TermSeq[i])
              THEN MatchLines(TermSeq[i], p) ELSE 0])

\* the hints whose normalized text the normalized path p holds
HintsIn(p) ==
    Cardinality({i \in 1..Len(signals.file_hints) :
                    Contains(Norm(p), Norm(signals.file_hints[i]))})

FoundByStrategy(p) == LexicalScore(p) > 0 \/ SymbolsDefinedIn(p) > 0

C16_ScoresAtReturn ==
    lpc = "done" =>
        /\ \A p \in LocatorFiles :
              Score(scores, p) =
                  IF FoundByStrategy(p)
                  THEN LexicalScore(p) + 2 * SymbolsDefinedIn(p) + HintsIn(p)
                  ELSE 0
        /\ ~rg.installed =>
              \A p \in LocatorFiles :
                  Score(scores, p) =
                      IF SymbolsDefinedIn(p) > 0
                      THEN 2 * SymbolsDefinedIn(p) + HintsIn(p) ELSE 0

\* C16: a search call that fails because ripgrep is missing or times out adds
\* nothing to any score and does not end the run: the loop goes on to the next
\* term, and the scores at return are those of the searches that answered, of
\* the index and of the hints (of the index and the hints alone when ripgrep
\* is missing).
C16_FailedSearchAddsNothing ==
    /\ []C16_ScoresAtReturn
    /\ [][(/\ lpc = "search"
           /\ term_idx <= Len(search_terms)
           /\ RgFails(rg, project, search_terms[term_idx]))
          => (scores' = scores /\ lpc' = "search" /\ term_idx' = term_idx + 1)]_vars

\* C16 witness: the search for one term timed out, the search for another
\* term scored a file, and the node returned
C16_Witness ==
    /\ lpc = "done"
    /\ rg.installed /\ project.isdir
    /\ rg.out["Foo"].status = "timeout"
    /\ Searched("Foo") /\ Searched("login")
    /\ LexicalScore(FileC) > 0
    /\ InList(ranked, FileC)

\* one step of the loop over the hints: no path is added, and a scored path
\* gains one if holds(path, hint) and nothing otherwise
HintStepAdds(holds(_, _)) ==
    (lpc = "hints" /\ hint_idx <= Len(signals.file_hints)) =>
        /\ Keys(scores') = Keys(scores)
        /\ \A i \in 1..Len(scores) :
              scores'[i].n = scores[i].n
                  + (IF holds(scores[i].path, signals.file_hints[hint_idx])
                     THEN 1 ELSE 0)

LocatedWereFound ==
    lpc = "done" => \A i \in 1..Len(ranked) : FoundByStrategy(ranked[i])

HoldsHint(p, hint) == Contains(Norm(p), hint)
HoldsNormalizedHint(p, hint) == Contains(Norm(p), Norm(hint))

\* C17 as stated: every located file was found by the lexical or the index
\* strategy, and each hint adds exactly 1 to each already-scored file whose
\* normalized path contains the hint, and nothing to any other file.
C17_HintsBoostScoredFilesOnly ==
    /\ []LocatedWereFound
    /\ [][HintStepAdds(HoldsHint)]_vars

\* C17, amended: ... whose normalized path contains the hint, the hint
\* normalized in the same way (backslashes replaced by slashes).
C17_NormalizedHintsBoostScoredFilesOnly ==
    /\ []LocatedWereFound
    /\ [][HintStepAdds(HoldsNormalizedHint)]_vars

\* C17 witness: a hint written with a backslash raised the score of a scored
\* file, and a hint that an unscored file of the tree holds added no file
C17_Witness ==
    /\ lpc = "done"
    /\ signals.file_hints = <<HintSBack, HintT, HintSBack>>
    /\ HasKey(scores, FileA)
    /\ Score(scores, FileA) = LexicalScore(FileA) + 2 * SymbolsDefinedIn(FileA) + 2
    /\ ~HasKey(scores, FileC)
    /\ project.files = TreeOne

\* the paths of the match lines rg prints for term t, in the order printed
MatchPaths(t) ==
    LET hits == SelectSeq(rg.out[t].lines, LAMBDA l : l.type = "match")
    IN  [i \in 1..Len(hits) |-> hits[i].path]

\* the order in which the files are first scored: the lexical hits, term by
\* term with the symbols before the keywords, then the files the index names
\* for the symbols
DiscoveryOrder ==
    LET terms == Dedupe(signals.symbols \o signals.keywords)
    IN  Dedupe(Flatten([i \in 1..Len(terms) |->
                          IF project.isdir /\ ~RgFails(rg, project, terms[i])
                          THEN MatchPaths(terms[i]) ELSE <<>>])
               \o Flatten([i \in 1..Len(signals.symbols) |->
                             PathsFor(index, signals.symbols[i])]))

Discovered(p) == CHOOSE i \in 1..Len(DiscoveryOrder) : DiscoveryOrder[i] = p

\* p ranks before q: a higher total, or the same total and found earlier
RanksBefore(p, q) ==
    \/ Score(scores, p) > Score(scores, q)
    \/ Score(scores, p) = Score(scores, q) /\ Discovered(p) < Discovered(q)

\* C23: file_locator_node ranks the files by total score in descending order,
\* the total being the lexical match counts plus twice the index hits plus
\* the hint bonuses; files with the same total keep the order in which they
\* were first scored, and the files returned are the first of that ranking.
C23_RankedByScoreThenDiscovery ==
    lpc = "done" =>
        /\ \A p \in LocatorFiles :
              Score(scores, p) =
                  IF FoundByStrategy(p)
                  THEN LexicalScore(p) + 2 * SymbolsDefinedIn(p) + HintsIn(p)
                  ELSE 0
        /\ \A i \in 1..Len(ranked) : InList(DiscoveryOrder, ranked[i])
        /\ \A i, j \in 1..Len(ranked) : i < j => RanksBefore(ranked[i], ranked[j])
        /\ \A i \in 1..Len(ranked) : \A q \in LocatorFiles :
              (InList(DiscoveryOrder, q) /\ ~InList(ranked, q)) => RanksBefore(ranked[i], q)

\* C23 witness: /t/a and /s/b have the same total, in path order /s/b comes
\* first, /t/a was scored first and is ranked first; a third file with a
\* higher total is ranked before both
C23_Witness ==
    /\ lpc = "done"
    /\ \E i, j, k \in 1..Len(ranked) :
          /\ k < i /\ i < j
          /\ ranked[i] = FileC /\ ranked[j] = FileB
          /\ Score(scores, FileC) = Score(scores, FileB)
          /\ Score(scores, ranked[k]) > Score(scores, FileC)
          /\ Discovered(FileC) < Discovered(FileB)

\* the text json.dump writes for the index of a full walk of the tree
FullRebuild == [exists |-> TRUE, text |-> SerializeIndex(BuildSymbolIndex(project.files))]

\* the step of a locate call that consults the index finds the cache file
\* missing or the rebuild forced
RebuildDue ==
    /\ lpc = "search" /\ term_idx > Len(search_terms)
    /\ signals.symbols # <<>>
    /\ force_rebuild \/ ~cache.exists

\* C24: the cache file is rewritten only by a locate call that needs the
\* index and finds the file missing or the rebuild forced, and then it holds
\* the index of a full walk of the tree, whatever it held before; every other
\* step of a locate call leaves the file as it is, and the index then used
\* for scoring is the map the file holds.
C24_CacheRewrittenOnlyWhenMissingOrForced ==
    [][/\ RebuildDue => (cache' = FullRebuild /\ index' = BuildSymbolIndex(project.files))
       /\ ~RebuildDue => cache' = cache
       /\ (~RebuildDue /\ lpc = "search" /\ lpc' = "hints" /\ signals.symbols # <<>>)
             => SerializeIndex(index') = cache.text]_vars

\* C24 witness: the first call found no usable cache and wrote the index of
\* the tree, the second call has loaded it without a rebuild and returned
C24_Witness ==
    /\ lpc = "done" /\ run = 2
    /\ ~force_rebuild
    /\ signals.symbols # <<>>
    /\ project.isdir
    /\ cache = FullRebuild
    /\ index = BuildSymbolIndex(project.files)
    /\ index # <<>>

-----------------------------------------------------------------------------
(* _load_or_build_index under concurrent pipeline instances *)

\* pipeline instances that call _load_or_build_index at the same time
MaxBuilders == 2

Builders == 1..MaxBuilders

\* the trees the instances walk: no project directory, or two files that
\* export the same name
TreeSmall ==
    <<TreeFile(FileB, TRUE, FALSE, TRUE, <<"Foo">>),
      TreeFile(FileA, TRUE, FALSE, TRUE, <<"Foo", "Foo">>)>>
IndexProjects ==
    {[isdir |-> FALSE, files |-> <<>>], [isdir |-> TRUE, files |-> TreeSmall]}

\* a cache file longer than the text of the index of either tree
LongCache ==
    [exists |-> TRUE,
     text   |-> SerializeIndex(<<[sym |-> "Old", paths |-> <<FileC, FileA, FileB>>]>>)]

NulTok == Tok("NUL")

\* open(index_path, "w"), mutated: the file is opened without truncating it
OpenKeeping(file) == [exists |-> TRUE, text |-> file.text]

\* line 115: open(index_path, "w") creates the file or truncates it
OpenForWrite(file) == [exists |-> TRUE, text |-> <<>>]

\* a write of one token at offset pos of a file opened for writing: past the
\* end of the file the gap reads as NUL bytes
WriteAt(text, pos, tok) ==
    IF pos < Len(text) THEN [text EXCEPT ![pos + 1] = tok]
    ELSE text \o [k \in 1..(pos - Len(text)) |-> NulTok] \o <<tok>>

NotStarted(force) ==
    [pc |-> "start", force |-> force, built |-> <<>>, pos |-> 0,
     index |-> <<>>, rebuilt |-> FALSE]

InitIndex ==
    /\ project \in IndexProjects
    /\ cache \in {NoFile, StaleCache, LongCache}
    /\ procs \in [Builders -> {NotStarted(f) : f \in BOOLEAN}]
    /\ signals = [keywords |-> <<>>, symbols |-> <<>>, file_hints |-> <<>>]
    /\ force_rebuild = FALSE
    /\ rg = [installed |-> FALSE, out |-> <<>>]
    /\ max_files = 0
    /\ search_terms = <<>>
    /\ term_idx = 1
    /\ scores = <<>>
    /\ index = <<>>
    /\ hint_idx = 1
    /\ ranked = <<>>
    /\ lpc = "idle"
    /\ run = 0
    /\ results = <<>>
    /\ ApplyIdle /\ PubIdle /\ ReadIdle /\ GraphIdle /\ AnaIdle

locNotIndex ==
    <<signals, force_rebuild, rg, max_files, search_terms, term_idx, scores, index,
      hint_idx, ranked, lpc, run, results>>
besidesIndex == <<applyVars, pubVars, locNotIndex, readVars, graphVars, anaVars>>

\* lines 108-111: rebuild when forced or when there is no cache file
CheckCache(p) ==
    /\ procs[p].pc = "start"
    /\ procs' = [procs EXCEPT ![p].pc =
                    IF procs[p].force \/ ~cache.exists THEN "build" ELSE "load"]
    /\ UNCHANGED <<project, cache>>
    /\ UNCHANGED besidesIndex

\* line 113: the tree is walked
BuildIndex(p) ==
    /\ procs[p].pc = "build"
    /\ procs' = [procs EXCEPT ![p].pc = "open",
                              ![p].built = BuildSymbolIndex(project.files)]
    /\ UNCHANGED <<project, cache>>
    /\ UNCHANGED besidesIndex

\* line 115: the cache file is opened for writing
OpenCache(p) ==
    /\ procs[p].pc = "open"
    /\ cache' = OpenForWrite(cache)
    /\ procs' = [procs EXCEPT ![p].pc = "write", ![p].pos = 0]
    /\ UNCHANGED project
    /\ UNCHANGED besidesIndex

\* line 116: json.dump writes the next piece of the text at the instance's own
\* file offset
WritePiece(p) ==
    /\ procs[p].pc = "write"
    /\ procs[p].pos < Len(SerializeIndex(procs[p].built))
    /\ cache' = [cache EXCEPT !.text =
                    WriteAt(@, procs[p].pos,
                            SerializeIndex(procs[p].built)[procs[p].pos + 1])]
    /\ procs' = [procs EXCEPT ![p].pos = @ + 1]
    /\ UNCHANGED project
    /\ UNCHANGED besidesIndex

\* lines 116-118: everything is written, the file is closed, the index built
\* is returned
CloseAndReturn(p) ==
    /\ procs[p].pc = "write"
    /\ procs[p].pos = Len(SerializeIndex(procs[p].built))
    /\ procs' = [procs EXCEPT ![p].pc = "done", ![p].index = procs[p].built,
                              ![p].rebuilt = TRUE]
    /\ UNCHANGED <<project, cache>>
    /\ UNCHANGED besidesIndex

\* lines 120-121: the cache file is read and parsed
LoadCache(p) ==
    /\ procs[p].pc = "load"
    /\ ParseIndex(cache.text).ok
    /\ procs' = [procs EXCEPT ![p].pc = "done", ![p].index = ParseIndex(cache.text).index]
    /\ UNCHANGED <<project, cache>>
    /\ UNCHANGED besidesIndex

\* line 121: json.load raises on a file another instance is still writing
LoadRaises(p) ==
    /\ procs[p].pc = "load"
    /\ ~ParseIndex(cache.text).ok
    /\ procs' = [procs EXCEPT ![p].pc = "raised"]
    /\ UNCHANGED <<project, cache>>
    /\ UNCHANGED besidesIndex

NextIndex ==
    \E p \in Builders :
        \/ CheckCache(p) \/ BuildIndex(p) \/ OpenCache(p) \/ WritePiece(p)
        \/ CloseAndReturn(p) \/ LoadCache(p) \/ LoadRaises(p)

SpecIndex == InitIndex /\ [][NextIndex]_vars

\* C19: when concurrent instances rebuild the index over the same unchanged
\* tree, then whatever the interleaving of their writes, once every instance
\* has finished the cache file is the text a single rebuild writes.
C19_LastWriterLeavesSingleRebuild ==
    (/\ \A p \in Builders : procs[p].pc \in {"done", "raised"}
     /\ \E p \in Builders : procs[p].rebuilt)
    => cache = [exists |-> TRUE,
                text   |-> SerializeIndex(BuildSymbolIndex(project.files))]

\* C19 witness: every instance was forced to rebuild and all have finished
C19_Witness ==
    /\ \A p \in Builders : procs[p].pc = "done" /\ procs[p].rebuilt
    /\ project.files = TreeSmall
    /\ \A p \in Builders : procs[p].force

\* the complete indexes an instance can find: the one of a cache file that
\* was there before, or the one a rebuild of the tree writes
CompleteIndexes ==
    {ParseIndex(StaleCache.text).index, ParseIndex(LongCache.text).index,
     BuildSymbolIndex(project.files)}

\* C30: an instance that loads the persisted index while another instance is
\* rebuilding it always obtains a complete index, the previous one or the new
\* one, and does not raise.
C30_LoadDuringRebuildIsComplete ==
    \A p \in Builders :
        /\ procs[p].pc # "raised"
        /\ (procs[p].pc = "done" /\ ~procs[p].rebuilt) => procs[p].index \in CompleteIndexes

-----------------------------------------------------------------------------
(* code_reader.py *)

\* longest located_files list handed to code_reader_node
MaxLocated == 3

\* MAX_FILE_BYTES, scaled down to the size of the files of the model
MaxFileBytes == 2

\* _TRUNCATION_MARKER, as one character
TruncationMarker == "[TRUNCATED]"

\* a path of the local filesystem: a regular file with its bytes, which open()
\* may refuse, a directory, or nothing
DiskFile(text, readable) == [kind |-> "file", readable |-> readable, text |-> text]
DiskDir  == [kind |-> "dir", readable |-> TRUE, text |-> <<>>]
DiskNone == [kind |-> "none", readable |-> FALSE, text |-> <<>>]

ReaderPaths == {FileA, FileB, FileC, FileD, FileDep}

\* bytes of a file: an ASCII byte is its character, "C3" "A9" are the two bytes
\* of the character U+00E9, "FF" is a byte no UTF-8 text contains
NotAscii == {"C3", "A9", "FF"}

\* line 45: open(path, encoding="utf-8", errors="ignore"); what fh.read
\* yields: the characters of the file, undecodable bytes dropped
RECURSIVE Decode(_)
Decode(bytes) ==
    IF bytes = <<>> THEN <<>>
    ELSE IF Len(bytes) >= 2 /\ bytes[1] = "C3" /\ bytes[2] = "A9"
         THEN <<"U+00E9">> \o Decode(SubSeq(bytes, 3, Len(bytes)))
         ELSE IF bytes[1] \in NotAscii
              THEN Decode(Tail(bytes))
              ELSE <<bytes[1]>> \o Decode(Tail(bytes))

\* the UTF-8 bytes of a text
RECURSIVE Encode(_)
Encode(chars) ==
    IF chars = <<>> THEN <<>>
    ELSE (IF chars[1] = "U+00E9" THEN <<"C3", "A9">> ELSE <<chars[1]>>)
            \o Encode(Tail(chars))

\* contents of the second file: longer than MAX_FILE_BYTES in ASCII, as long
\* in bytes with a two-byte character, twice as long with two-byte characters
\* only, short with a byte that does not decode, and short
FileTexts ==
    {<<"b", "b", "b">>, <<"C3", "A9", "b">>,
     <<"C3", "A9", "C3", "A9", "C3", "A9">>, <<"b", "FF">>, <<"b", "b">>}

Disks ==
    {[q \in ReaderPaths |->
        CASE q = FileA -> DiskFile(<<"a">>, TRUE)
          [] q = FileB -> DiskFile(t, b)
          [] q = FileC -> DiskFile(<<"c">>, FALSE)
          [] q = FileD -> DiskNone
          [] OTHER     -> DiskDir] : b \in BOOLEAN, t \in FileTexts}

\* lines 46-49: at most MAX_FILE_BYTES + 1 characters are read; a text longer
\* than MAX_FILE_BYTES is cut and marked
ReadText(text) ==
    LET raw == SubSeq(text, 1, Min(Len(text), MaxFileBytes + 1))
    IN  IF Len(raw) > MaxFileBytes
        THEN SubSeq(raw, 1, MaxFileBytes) \o <<TruncationMarker>>
        ELSE raw

\* file_contents[path] = raw on a dict in insertion order
PutContent(d, p, raw) ==
    IF \E i \in 1..Len(d) : d[i].path = p
    THEN [i \in 1..Len(d) |-> IF d[i].path = p THEN [path |-> p, text |-> raw] ELSE d[i]]
    ELSE Append(d, [path |-> p, text |-> raw])

\* open() raised OSError, mutated: the exception is not caught
OpenErrorRaised(sk, p) == [rpc |-> "raised", skipped |-> sk]

\* lines 52-54: open() raised OSError, the path is skipped
OpenErrorSkipped(sk, p) == [rpc |-> "loop", skipped |-> Append(sk, p)]

InitRead ==
    /\ located_files \in SeqsOf(ReaderPaths, 0, MaxLocated)
    /\ disk \in Disks
    /\ file_contents = <<>>
    /\ skipped = <<>>
    /\ read_idx = 1
    /\ rpc = "start"
    /\ ApplyIdle /\ PubIdle /\ LocIdle /\ IdxIdle /\ GraphIdle /\ AnaIdle

\* lines 35-37
ReadStart ==
    /\ rpc = "start"
    /\ file_contents' = <<>>
    /\ skipped' = <<>>
    /\ read_idx' = 1
    /\ rpc' = "loop"
    /\ UNCHANGED <<located_files, disk>>
    /\ UNCHANGED besidesRead

ReadPath == located_files[read_idx]

\* lines 40-42: the path is not a regular file
SkipNotFile ==
    /\ rpc = "loop"
    /\ read_idx <= Len(located_files)
    /\ disk[ReadPath].kind # "file"
    /\ skipped' = Append(skipped, ReadPath)
    /\ read_idx' = read_idx + 1
    /\ UNCHANGED <<located_files, disk, file_contents, rpc>>
    /\ UNCHANGED besidesRead

\* lines 44-51: the file is read
ReadFile ==
    /\ rpc = "loop"
    /\ read_idx <= Len(located_files)
    /\ disk[ReadPath].kind = "file"
    /\ disk[ReadPath].readable
    /\ file_contents' = PutContent(file_contents, ReadPath, ReadText(Decode(disk[ReadPath].text)))
    /\ read_idx' = read_idx + 1
    /\ UNCHANGED <<located_files, disk, skipped, rpc>>
    /\ UNCHANGED besidesRead

\* lines 45, 52-54: open() raises OSError
ReadFails ==
    /\ rpc = "loop"
    /\ read_idx <= Len(located_files)
    /\ disk[ReadPath].kind = "file"
    /\ ~disk[ReadPath].readable
    /\ skipped' = OpenErrorSkipped(skipped, ReadPath).skipped
    /\ rpc' = OpenErrorSkipped(skipped, ReadPath).rpc
    /\ read_idx' = read_idx + 1
    /\ UNCHANGED <<located_files, disk, file_contents>>
    /\ UNCHANGED besidesRead

\* lines 56-64
ReadReturn ==
    /\ rpc = "loop"
    /\ read_idx > Len(located_files)
    /\ rpc' = "done"
    /\ UNCHANGED <<located_files, disk, file_contents, skipped, read_idx>>
    /\ UNCHANGED besidesRead

NextRead == ReadStart \/ SkipNotFile \/ ReadFile \/ ReadFails \/ ReadReturn

SpecRead == InitRead /\ [][NextRead]_vars

\* the path is a regular file that open() does not refuse
CanBeRead(p) == disk[p].kind = "file" /\ disk[p].readable

\* C20: code_reader_node never raises because of a missing or unreadable
\* path. It returns for every list of located paths, file_contents holds
\* exactly the paths that exist and could be read, in ranked order, and every
\* other path is skipped.
C20_UnreadablePathsAreSkipped ==
    /\ rpc # "raised"
    /\ rpc = "done" =>
          /\ [i \in 1..Len(file_contents) |-> file_contents[i].path]
                = Dedupe(SelectSeq(located_files, CanBeRead))
          /\ skipped = SelectSeq(located_files, LAMBDA p : ~CanBeRead(p))

\* C20 witness: a missing path and a file that cannot be opened were skipped,
\* a later file was read, and the node returned
C20_Witness ==
    /\ rpc = "done"
    /\ \E i \in 1..Len(skipped) : disk[skipped[i]].kind = "none"
    /\ \E i \in 1..Len(skipped) : disk[skipped[i]].kind = "file"
    /\ Len(file_contents) = 1
    /\ file_contents[1].path = located_files[Len(located_files)]

\* the content passed downstream ends with the truncation marker
Marked(content) == content # <<>> /\ content[Len(content)] = TruncationMarker

\* C21: the content passed downstream for a loaded file has length at most
\* MAX_FILE_BYTES plus the length of the truncation marker, it ends with the
\* marker exactly when the file on disk is longer than MAX_FILE_BYTES, and a
\* file of at most MAX_FILE_BYTES is passed unchanged.
C21_BoundedAndMarkedIffLonger ==
    \A i \in 1..Len(file_contents) :
        LET content == file_contents[i].text
            bytes   == disk[file_contents[i].path].text
        IN  /\ Len(content) <= MaxFileBytes + Len(<<TruncationMarker>>)
            /\ Marked(content) <=> Len(bytes) > MaxFileBytes
            /\ Len(bytes) <= MaxFileBytes => Encode(content) = bytes

-----------------------------------------------------------------------------
(* workflow.py: the compiled graph *)

\* invocations of the graph that run at the same time (bot.py runs each
\* app.invoke in the executor's thread pool)
MaxInvocations == 2

Invocations == 1..MaxInvocations

Start == "START"
End   == "END"

\* workflow.add_node, lines 43-47
Nodes ==
    {"issue_analyzer", "file_locator", "code_reader", "patch_generator", "pr_creator"}

\* workflow.add_edge, mutated: the publish step is wired back to the patch
\* generator
EdgesWithRetry ==
    {<<Start, "issue_analyzer">>,
     <<"issue_analyzer", "file_locator">>,
     <<"file_locator", "code_reader">>,
     <<"code_reader", "patch_generator">>,
     <<"patch_generator", "pr_creator">>,
     <<"pr_creator", "patch_generator">>,
     <<"pr_creator", End>>}

\* workflow.add_edge, lines 49-54
Edges ==
    {<<Start, "issue_analyzer">>,
     <<"issue_analyzer", "file_locator">>,
     <<"file_locator", "code_reader">>,
     <<"code_reader", "patch_generator">>,
     <<"patch_generator", "pr_creator">>,
     <<"pr_creator", End>>}

\* the nodes an edge leads to from one of the nodes in `from`
Successors(from) == {n \in Nodes : \E m \in from : <<m, n>> \in Edges}

\* the keys of the dict a node returns; pr_creator_node returns pr_url only
\* when the pull request was opened
Outputs(n) ==
    CASE n = "issue_analyzer"  -> {{"keywords", "symbols", "file_hints", "logs"}}
      [] n = "file_locator"    -> {{"located_files", "logs"}}
      [] n = "code_reader"     -> {{"file_contents", "logs"}}
      [] n = "patch_generator" -> {{"patch", "logs"}}
      [] OTHER                 -> {{"pr_url", "logs"}, {"logs"}}

\* the nodes that can raise: the two calls of the language model, json.load
\* of the symbol index, and the except clause of pr_creator_node
CanRaise == {"issue_analyzer", "file_locator", "patch_generator", "pr_creator"}

\* the keys of `inputs` (bot.py, lines 120-126)
InputKeys ==
    {"message_id", "channel_id", "raw_log", "logs",
     "issue_number", "issue_title", "issue_body"}

Event(kind, n, keys) == [kind |-> kind, node |-> n, keys |-> keys]

\* One invocation: the nodes of the current step that have not run yet, the
\* node that is running, the nodes of the step that have returned, the keys of
\* the state that are set, the logs channel (who appended, in order), the
\* events so far, and how the invocation stands.
Invoked ==
    [active |-> Successors({Start}), running |-> "", ran |-> {},
     keys |-> InputKeys, logs |-> <<>>, trace |-> <<>>, status |-> "running"]

InitGraph ==
    /\ invocations = [i \in Invocations |-> Invoked]
    /\ ApplyIdle /\ PubIdle /\ LocIdle /\ IdxIdle /\ ReadIdle /\ AnaIdle

\* a node of the current step is called with the state as it stands
NodeStart(i, n) ==
    /\ invocations[i].status = "running"
    /\ invocations[i].running = ""
    /\ n \in invocations[i].active
    /\ invocations' = [invocations EXCEPT
          ![i].active = @ \ {n},
          ![i].running = n,
          ![i].trace = Append(@, Event("start", n, invocations[i].keys))]
    /\ UNCHANGED besidesGraph

\* the node returns its partial state, which is merged into the state; logs
\* is a channel with the reducer operator.add
NodeReturn(i, n) ==
    /\ invocations[i].running = n
    /\ \E out \in Outputs(n) :
          invocations' = [invocations EXCEPT
              ![i].running = "",
              ![i].ran = @ \cup {n},
              ![i].keys = @ \cup out,
              ![i].logs = Append(@, n),
              ![i].trace = Append(@, Event("return", n, invocations[i].keys \cup out))]
    /\ UNCHANGED besidesGraph

\* the node raises: app.invoke raises and the invocation is over
NodeRaises(i, n) ==
    /\ invocations[i].running = n
    /\ n \in CanRaise
    /\ invocations' = [invocations EXCEPT
          ![i].running = "",
          ![i].status = "raised",
          ![i].trace = Append(@, Event("raise", n, invocations[i].keys))]
    /\ UNCHANGED besidesGraph

\* every node of the step has returned: the next step runs the nodes their
\* edges lead to, and the invocation ends when there are none
StepEnd(i) ==
    /\ invocations[i].status = "running"
    /\ invocations[i].running = ""
    /\ invocations[i].active = {}
    /\ invocations' = [invocations EXCEPT
          ![i].active = Successors(invocations[i].ran),
          ![i].ran = {},
          ![i].status = IF Successors(invocations[i].ran) = {} THEN "done" ELSE "running"]
    /\ UNCHANGED besidesGraph

NextGraph ==
    \E i \in Invocations :
        \/ StepEnd(i)
        \/ \E n \in Nodes : NodeStart(i, n) \/ NodeReturn(i, n) \/ NodeRaises(i, n)

SpecGraph == InitGraph /\ [][NextGraph]_vars

\* the order of the stages
Stages ==
    <<"issue_analyzer", "file_locator", "code_reader", "patch_generator", "pr_creator">>

\* the events of a run in which every stage starts and returns, in order
StageEvents(tr) == [k \in 1..Len(tr) |-> <<tr[k].kind, tr[k].node>>]
FullRun ==
    [k \in 1..(2 * Len(Stages)) |->
        IF k % 2 = 1 THEN <<"start", Stages[(k + 1) \div 2]>>
        ELSE <<"return", Stages[k \div 2]>>]

\* what a stage has put into the state when it has returned in full
Produced(n) ==
    CASE n = "issue_analyzer"  -> {"keywords", "symbols", "file_hints"}
      [] n = "file_locator"    -> {"located_files"}
      [] n = "code_reader"     -> {"file_contents"}
      [] n = "patch_generator" -> {"patch"}
      [] OTHER                 -> {}

\* C18: the stages run strictly in the order issue_analyzer, file_locator,
\* code_reader, patch_generator, pr_creator. Each stage starts at most once
\* and only after the stage before it has returned with its full output in the
\* state, no stage is entered again once a later one has started, and an
\* invocation that comes to its end has run every stage exactly once.
C18_StagesRunInOrder ==
    \A i \in Invocations :
        LET tr   == invocations[i].trace
            evs  == StageEvents(tr)
            last == IF tr = <<>> THEN "" ELSE tr[Len(tr)].kind
            body == IF last = "raise" THEN SubSeq(evs, 1, Len(evs) - 1) ELSE evs
        IN  /\ IsPrefix(body, FullRun)
            /\ last = "raise" =>
                  /\ Len(body) % 2 = 1
                  /\ body[Len(body)][2] = tr[Len(tr)].node
            /\ \A k \in 1..Len(tr) :
                  tr[k].kind = "start" =>
                      \A j \in 1..Len(Stages) :
                          (\E m \in (j + 1)..Len(Stages) : Stages[m] = tr[k].node)
                              => Produced(Stages[j]) \subseteq tr[k].keys
            /\ invocations[i].status = "done" =>
                  /\ evs = FullRun
                  /\ invocations[i].logs = Stages

\* C18 witness: one invocation has come to its end while another is still in
\* the middle of a stage
C18_Witness ==
    \E i, j \in Invocations :
        /\ invocations[i].status = "done"
        /\ Len(invocations[i].trace) = 2 * Len(Stages)
        /\ invocations[j].running = "code_reader"

-----------------------------------------------------------------------------
(* issue_analyzer.py *)

\* line 72: words[:8]
MaxFallbackWords == 8
\* line 70: [a-zA-Z]{3,}
MinWordLen == 3

Uppers == <<"A", "B", "C", "D", "E", "F", "G", "H", "I", "J", "K", "L", "M", "N", "O", "P", "Q", "R", "S", "T", "U", "V", "W", "X", "Y", "Z">>
Lowers == <<"a", "b", "c", "d", "e", "f", "g", "h", "i", "j", "k", "l", "m", "n", "o", "p", "q", "r", "s", "t", "u", "v", "w", "x", "y", "z">>

IsLetter(c) == \E i \in 1..26 : Uppers[i] = c \/ Lowers[i] = c

\* str.lower() on one character
LowerChar(c) ==
    IF \E i \in 1..26 : Uppers[i] = c
    THEN Lowers[CHOOSE i \in 1..26 : Uppers[i] = c]
    ELSE c

LowerWord(w) == [i \in 1..Len(w) |-> LowerChar(w[i])]

\* line 70: re.findall(r"[a-zA-Z]{3,}", text): the maximal runs of letters
\* that are at least three letters long, left to right
RECURSIVE FindWords(_, _)
FindWords(text, run_) ==
    LET found == IF Len(run_) >= MinWordLen THEN <<run_>> ELSE <<>>
    IN  IF text = <<>> THEN found
        ELSE IF IsLetter(Head(text))
             THEN FindWords(Tail(text), Append(run_, Head(text)))
             ELSE found \o FindWords(Tail(text), <<>>)

\* lines 70-72: list(dict.fromkeys(w.lower() for w in words[:8]))
FallbackKeywords(title, body) ==
    LET words == Prefix(FindWords(title \o <<" ">> \o body, <<>>), MaxFallbackWords)
    IN  Dedupe([i \in 1..Len(words) |-> LowerWord(words[i])])

\* JSON values: null, a number, a string, a list of strings, and an object
\* whose members are such values
JNull      == [t |-> "null", s |-> <<>>, items |-> <<>>, fields |-> <<>>]
JNum(s)    == [t |-> "num",  s |-> s,    items |-> <<>>, fields |-> <<>>]
JStr(s)    == [t |-> "str",  s |-> s,    items |-> <<>>, fields |-> <<>>]
JList(xs)  == [t |-> "list", s |-> <<>>, items |-> xs,   fields |-> <<>>]
JObj(fs)   == [t |-> "obj",  s |-> <<>>, items |-> <<>>, fields |-> fs]
Member(k, v) == [key |-> k, val |-> v]

WordLogin == <<"l", "o", "g", "i", "n">>
WordFoo   == <<"F", "o", "o">>
WordAuth  == <<"a", "u", "t", "h", "/">>

\* the text of a JSON value, as tokens
StrTok(s) == [t |-> "str", v |-> s]
DumpFlat(v) ==
    CASE v.t = "null" -> <<Tok("null")>>
      [] v.t = "num"  -> <<[t |-> "num", v |-> v.s]>>
      [] v.t = "str"  -> <<StrTok(v.s)>>
      [] OTHER        -> <<Tok("[")>> \o [i \in 1..Len(v.items) |-> StrTok(v.items[i])]
                            \o <<Tok("]")>>
Dump(v) ==
    IF v.t = "obj"
    THEN <<Tok("{")>>
         \o Flatten([i \in 1..Len(v.fields) |->
                       <<KeyTok(v.fields[i].key)>> \o DumpFlat(v.fields[i].val)])
         \o <<Tok("}")>>
    ELSE DumpFlat(v)

\* the JSON values the model of the text-generation service can answer with
SignalLists == {JList(<<>>), JList(<<WordLogin>>), JList(<<WordLogin, WordFoo>>)}
FlatValues  == {JNull, JNum(<<"4", "2">>), JStr(WordLogin)} \cup SignalLists
GoodObj ==
    JObj(<<Member("keywords", JList(<<WordLogin>>)),
           Member("symbols", JList(<<WordFoo>>)),
           Member("file_hints", JList(<<WordAuth>>))>>)
Objects ==
    {GoodObj, JObj(<<>>)}
    \cup {JObj(<<Member("keywords", v)>>) : v \in FlatValues}
    \cup {JObj(<<Member("keywords", JList(<<WordLogin>>)), Member("symbols", v)>>) :
             v \in {JNull, JStr(WordFoo)}}
JsonValues == FlatValues \cup Objects

JsonDecodeError == [ok |-> FALSE, value |-> JNull]

\* line 65: json.loads(raw)
JsonLoads(toks) ==
    LET hits == {v \in JsonValues : Dump(v) = toks}
    IN  IF hits = {} THEN JsonDecodeError
        ELSE [ok |-> TRUE, value |-> CHOOSE v \in hits : TRUE]

\* line 58: str.strip()
RECURSIVE StripWs(_)
StripWs(toks) ==
    IF toks = <<>> THEN <<>>
    ELSE IF Head(toks).t = "ws" THEN StripWs(Tail(toks))
    ELSE IF toks[Len(toks)].t = "ws" THEN StripWs(SubSeq(toks, 1, Len(toks) - 1))
    ELSE toks

\* lines 61-62: a markdown fence that opens the text and one that ends it
\* are removed
StripFences(toks) ==
    LET opened == IF toks # <<>> /\ Head(toks).t = "fence_open" THEN Tail(toks) ELSE toks
    IN  IF opened # <<>> /\ opened[Len(opened)].t = "fence_close"
        THEN SubSeq(opened, 1, Len(opened) - 1)
        ELSE opened

\* dict.get(key, []) on a JSON object
Get(obj, k) ==
    IF \E i \in 1..Len(obj.fields) : obj.fields[i].key = k
    THEN obj.fields[CHOOSE i \in 1..Len(obj.fields) : obj.fields[i].key = k].val
    ELSE JList(<<>>)

\* lines 78-83: parsed.get(...) needs a dict (AttributeError), and
\* len(parsed.get(...)) a value that has a length (TypeError)
ReturnRaises(v) ==
    \/ v.t # "obj"
    \/ \E k \in {"keywords", "symbols", "file_hints"} : Get(v, k).t \in {"null", "num"}

\* the answers of the text-generation service
Responses ==
    {Dump(v) : v \in JsonValues}
    \cup {<<Tok("ws")>> \o Dump(GoodObj) \o <<Tok("ws")>>,
          <<Tok("fence_open")>> \o Dump(GoodObj) \o <<Tok("fence_close")>>,
          <<Tok("fence_open")>> \o Dump(JList(<<WordLogin>>)) \o <<Tok("fence_close"), Tok("ws")>>,
          <<Tok("prose")>>,
          <<Tok("prose"), Tok("fence_open")>> \o Dump(GoodObj) \o <<Tok("fence_close")>>,
          SubSeq(Dump(GoodObj), 1, Len(Dump(GoodObj)) - 1),
          <<>>}

\* issues: words repeated and in capitals, no word at all, and more than
\* eight words with repeats among the first eight
IssueLogin ==
    [title |-> <<"F", "i", "x", " ", "L", "o", "g", "i", "n">>,
     body  |-> <<"l", "o", "g", "i", "n", " ", "f", "a", "i", "l", "s", " ", "i", "n", " ", "U", "s", "e", "r", "S", "e", "r", "v", "i", "c", "e">>]
IssueNoWords == [title |-> <<"a", "1">>, body |-> <<>>]
IssueLong ==
    [title |-> <<"O", "n", "e", " ", "t", "w", "o">>,
     body  |-> <<"s", "i", "x", "2", "s", "i", "x", " ", "o", "n", "e", " ", "r", "e", "d", " ", "b", "i", "g", " ", "c", "a", "t", " ", "d", "o", "g", " ", "h", "e", "n", " ", "p", "i", "g", " ", "o", "w", "l">>]
Issues == {IssueLogin, IssueNoWords, IssueLong}

NoAnalysis ==
    [returned |-> FALSE, keywords |-> JNull, symbols |-> JNull, file_hints |-> JNull]

InitAnalyze ==
    /\ issue_text \in Issues
    /\ answer = <<>>
    /\ parsed = JNull
    /\ analysis = NoAnalysis
    /\ ipc = "start"
    /\ ApplyIdle /\ PubIdle /\ LocIdle /\ IdxIdle /\ ReadIdle /\ GraphIdle

\* lines 52-56: the prompt is sent and the model answers
InvokeModel ==
    /\ ipc = "start"
    /\ \E r \in Responses : answer' = r
    /\ ipc' = "answered"
    /\ UNCHANGED <<issue_text, parsed, analysis>>
    /\ UNCHANGED besidesAna

\* lines 58-62
StripRaw ==
    /\ ipc = "answered"
    /\ answer' = StripFences(StripWs(answer))
    /\ ipc' = "stripped"
    /\ UNCHANGED <<issue_text, parsed, analysis>>
    /\ UNCHANGED besidesAna

\* lines 64-65: json.loads succeeds
ParseJson ==
    /\ ipc = "stripped"
    /\ JsonLoads(answer).ok
    /\ parsed' = JsonLoads(answer).value
    /\ ipc' = "parsed"
    /\ UNCHANGED <<issue_text, answer, analysis>>
    /\ UNCHANGED besidesAna

\* lines 66-75: JSONDecodeError, the keywords are taken from the issue_text text
ParseFallback ==
    /\ ipc = "stripped"
    /\ ~JsonLoads(answer).ok
    /\ parsed' = JObj(<<Member("keywords", JList(FallbackKeywords(issue_text.title, issue_text.body))),
                        Member("symbols", JList(<<>>)),
                        Member("file_hints", JList(<<>>))>>)
    /\ ipc' = "parsed"
    /\ UNCHANGED <<issue_text, answer, analysis>>
    /\ UNCHANGED besidesAna

\* lines 77-84
AnalyzeReturn ==
    /\ ipc = "parsed"
    /\ ~ReturnRaises(parsed)
    /\ analysis' = [returned   |-> TRUE,
                    keywords   |-> Get(parsed, "keywords"),
                    symbols    |-> Get(parsed, "symbols"),
                    file_hints |-> Get(parsed, "file_hints")]
    /\ ipc' = "done"
    /\ UNCHANGED <<issue_text, answer, parsed>>
    /\ UNCHANGED besidesAna

\* lines 78-83: AttributeError or TypeError leaves the node
AnalyzeRaises ==
    /\ ipc = "parsed"
    /\ ReturnRaises(parsed)
    /\ ipc' = "raised"
    /\ UNCHANGED <<issue_text, answer, parsed, analysis>>
    /\ UNCHANGED besidesAna

NextAnalyze ==
    InvokeModel \/ StripRaw \/ ParseJson \/ ParseFallback \/ AnalyzeReturn \/ AnalyzeRaises

SpecAnalyze == InitAnalyze /\ [][NextAnalyze]_vars

\* the text is a JSON object whose keywords, symbols and file_hints, where
\* present, are lists
WellFormedSignals(toks) ==
    \E v \in Objects :
        /\ Dump(v) = toks
        /\ \A k \in {"keywords", "symbols", "file_hints"} : Get(v, k).t = "list"

\* what the naive tokenization of the issue_text gives
NaiveSignals ==
    [returned   |-> TRUE,
     keywords   |-> JList(FallbackKeywords(issue_text.title, issue_text.body)),
     symbols    |-> JList(<<>>),
     file_hints |-> JList(<<>>)]

\* C22: for every answer of the text-generation service that is not a
\* well-formed signals object, issue_analyzer_node does not raise and returns
\* the keywords of the naive tokenization (at most eight, lowercase, without
\* duplicates) with no symbols and no file hints.
C22_MalformedAnswerFallsBack ==
    /\ ipc # "raised"
    /\ (ipc = "done" /\ ~WellFormedSignals(answer)) =>
          /\ analysis = NaiveSignals
          /\ Len(analysis.keywords.items) <= MaxFallbackWords

====
